---- MODULE Spec2Model ----
(***************************************************************************)
(* Model of the deployment mutators of pkg/reconcilers/deployment.go and   *)
(* of the reconcile invocation that runs them.                             *)
(*                                                                         *)
(* A Deployment is a record of the fields the mutators read or write.  Go  *)
(* slices and pointers are values with an identity: the model keeps, next  *)
(* to the desired and the existing object, which parts of existing are the *)
(* same memory as desired (mem.cAlias, mem.icShare), because a write       *)
(* through existing is then a write into desired.                          *)
(***************************************************************************)
EXTENDS Integers, Sequences, FiniteSets, TLC

VARIABLES
    mem,        \* desired, existing and their sharing, in the invocation's memory
    prev,       \* the memory before the last call
    last,       \* the function called last
    rep,        \* the last call repeated the call before it, which had succeeded
                \* (RecSpec: the invocation follows one that ended in a conflict)
    changed,    \* the bool the last call returned
    status,     \* "ok", "error" or "panic": how the last call ended
    trace,      \* the mutators the last call invoked, with their results
    calls,      \* calls (Spec) or invocations (RecSpec) made so far
    opts,       \* the option list of the pipeline
    desired0,   \* the desired object as its builder made it
    store,      \* the object the store holds
    storeVer,   \* its resource version
    lastEdit,   \* the object the last external edit left in the store
    edits,      \* external edits made so far
    fetchedVer, \* the resource version the invocation fetched
    pc,         \* where the reconcile invocation stands
    writes,     \* write calls the invocation issued
    outcome,    \* what the invocation reported to the scheduling layer
    osEnv,      \* WATCH_NAMESPACE in the environment of the operator process
    proc,       \* the operator process: where main stands and what it has done
    apiManager, \* the APIManager the AMPImagesReconciler was built for
    serviceAccount, \* the service account of the deployments in the cluster
    ampRet      \* what the last AMPImagesReconciler.Reconcile returned

memVars == <<mem, prev, last, rep, changed, status, trace, calls, opts>>
storeVars == <<store, storeVer, lastEdit, edits>>
recVars == <<fetchedVer, pc, writes, outcome>>
mainVars == <<osEnv, proc>>
ampVars == <<apiManager, serviceAccount, ampRet>>
vars == <<memVars, desired0, storeVars, recVars, mainVars, ampVars>>

(***************************************************************************)
(* Bounds of the model.                                                    *)
(***************************************************************************)
MaxCalls == 3
MaxContainers == 2
MaxEnv == 2
MaxVolumes == 2
MaxEdits == 1
MaxInvocations == 2

(***************************************************************************)
(* Small helpers.                                                          *)
(***************************************************************************)
Min(a, b) == IF a < b THEN a ELSE b
Max(a, b) == IF a < b THEN b ELSE a

RemoveAt(s, k) == [i \in 1..(Len(s) - 1) |-> IF i < k THEN s[i] ELSE s[i + 1]]

\* Index of the first element of s whose name is n, 0 when there is none.
FirstNamed(s, n) ==
    IF \E i \in 1..Len(s) : s[i].name = n
    THEN CHOOSE i \in 1..Len(s) :
            /\ s[i].name = n
            /\ \A j \in 1..(i - 1) : s[j].name # n
    ELSE 0

\* Sequences over S of length at most n.
SeqUpTo(S, n) == UNION {[1..k -> S] : k \in 0..n}

(***************************************************************************)
(* Values.                                                                 *)
(***************************************************************************)
LW  == "LISTENER_WORKERS"
CRA == "CONFIG_REDIS_ASYNC"

EnvVarFromValue(n, v) == [name |-> n, value |-> v]

\* A *int32: the allocation it points to ("nil", desired's "D", a decoded
\* object's "E") and the value there.
NilPtr == [ptr |-> "nil", val |-> 0]
Ptr(p, v) == [ptr |-> p, val |-> v]

Container(image, args, resources, env, mounts, probe) ==
    [image |-> image, args |-> args, resources |-> resources, env |-> env,
     mounts |-> mounts, liveness |-> probe, readiness |-> probe]

\* The value a mutator call returns, with the memory it leaves.  status is
\* "ok" (nil error), "error" (non-nil error) or "panic" (index out of range).
Res(m, c, s) == [mem |-> m, changed |-> c, status |-> s]

\* A write of e2 through the existing object: when existing's container slice
\* is desired's (same backing array), desired's containers are that memory.
WithE(m, e2) ==
    [m EXCEPT !.e = e2,
              !.d = IF m.cAlias
                    THEN [m.d EXCEPT !.containers = e2.containers]
                    ELSE m.d]

(***************************************************************************)
(* helper package (not part of the sources at hand).                       *)
(***************************************************************************)
\* helper.MergeMapStringString: every key of desired is set in existing.
MergeMapStringString(existing, desired) ==
    LET merged == [k \in (DOMAIN existing) \cup (DOMAIN desired) |->
                      IF k \in DOMAIN desired THEN desired[k] ELSE existing[k]]
    IN [map |-> merged, modified |-> merged # existing]

\* helper.CmpResources: TRUE iff the two resource requirements are equal.
CmpResources(a, b) == a = b

\* helper.RemoveDuplicateEnvVars: one entry per name, the first one.
RemoveDuplicateEnvVars(env) ==
    LET keep == {i \in 1..Len(env) : \A j \in 1..(i - 1) : env[j].name # env[i].name}
        F[i \in 0..Len(env)] ==
            IF i = 0 THEN <<>>
            ELSE IF i \in keep THEN Append(F[i - 1], env[i]) ELSE F[i - 1]
    IN F[Len(env)]

(***************************************************************************)
(* Mutators of deployment.go.  Each takes the memory (desired, existing    *)
(* and their sharing) and returns Res(memory, changed, status).            *)
(***************************************************************************)
DeploymentAnnotationsMutator(m) ==
    LET r == MergeMapStringString(m.e.ann, m.d.ann)
    IN Res(WithE(m, [m.e EXCEPT !.ann = r.map]), r.modified, "ok")

\* desired.Spec.Replicas != existing.Spec.Replicas compares the two pointers.
DeploymentReplicasMutator(m) ==
    IF m.d.replicas.ptr # m.e.replicas.ptr
    THEN Res(WithE(m, [m.e EXCEPT !.replicas = m.d.replicas]), TRUE, "ok")
    ELSE Res(m, FALSE, "ok")

DeploymentAffinityMutator(m) ==
    IF m.e.affinity # m.d.affinity
    THEN Res(WithE(m, [m.e EXCEPT !.affinity = m.d.affinity]), TRUE, "ok")
    ELSE Res(m, FALSE, "ok")

\* DeploymentTolerationsMutator that assigns to the affinity of existing.
DeploymentTolerationsMutatorIntoAffinity(m) ==
    IF m.e.tolerations # m.d.tolerations
    THEN Res(WithE(m, [m.e EXCEPT !.affinity = m.d.tolerations]), TRUE, "ok")
    ELSE Res(m, FALSE, "ok")

DeploymentTolerationsMutator(m) ==
    IF m.e.tolerations # m.d.tolerations
    THEN Res(WithE(m, [m.e EXCEPT !.tolerations = m.d.tolerations]), TRUE, "ok")
    ELSE Res(m, FALSE, "ok")

\* DeploymentContainerResourcesMutator that rejects an empty desired container
\* list only.
DeploymentContainerResourcesMutatorLenient(m) ==
    IF Len(m.d.containers) = 0
    THEN Res(m, FALSE, "error")
    ELSE LET recreate == Len(m.e.containers) # 1
             m1 == IF recreate
                   THEN [m EXCEPT !.e.containers = m.d.containers,
                                  !.cAlias = TRUE]
                   ELSE m
             differ == ~CmpResources(m1.e.containers[1].resources,
                                     m1.d.containers[1].resources)
             m2 == IF differ
                   THEN WithE(m1, [m1.e EXCEPT !.containers[1].resources =
                                                  m1.d.containers[1].resources])
                   ELSE m1
         IN Res(m2, recreate \/ differ, "ok")

\* DeploymentContainerResourcesMutator that takes desired's container list
\* whenever anything differs.
DeploymentContainerResourcesMutatorWholeList(m) ==
    IF Len(m.d.containers) # 1
    THEN Res(m, FALSE, "error")
    ELSE LET recreate == Len(m.e.containers) # 1
             differ == recreate \/ ~CmpResources(m.e.containers[1].resources,
                                                 m.d.containers[1].resources)
             m1 == IF differ
                   THEN [m EXCEPT !.e.containers = m.d.containers,
                                  !.cAlias = TRUE]
                   ELSE m
         IN Res(m1, differ, "ok")

DeploymentContainerResourcesMutator(m) ==
    IF Len(m.d.containers) # 1
    THEN Res(m, FALSE, "error")
    ELSE LET recreate == Len(m.e.containers) # 1
             \* existing.Containers = desired.Containers: one backing array
             m1 == IF recreate
                   THEN [m EXCEPT !.e.containers = m.d.containers,
                                  !.cAlias = TRUE]
                   ELSE m
             differ == ~CmpResources(m1.e.containers[1].resources,
                                     m1.d.containers[1].resources)
             m2 == IF differ
                   THEN WithE(m1, [m1.e EXCEPT !.containers[1].resources =
                                                  m1.d.containers[1].resources])
                   ELSE m1
         IN Res(m2, recreate \/ differ, "ok")

\* helper.EnvVarReconciler(desired, &existing, envVar), by the contract the
\* comment of DeploymentEnvVarReconciler states for the entry named envVar:
\* added when in desired and not in existing, updated when in both and not
\* equal, removed when in existing and not in desired.
EnvVarReconciler(desired, existing, envVar) ==
    LET desiredIdx == FirstNamed(desired, envVar)
        existingIdx == FirstNamed(existing, envVar)
    IN IF desiredIdx = 0 /\ existingIdx > 0
       THEN [env |-> RemoveAt(existing, existingIdx), update |-> TRUE]
       ELSE IF desiredIdx = 0
       THEN [env |-> existing, update |-> FALSE]
       ELSE IF existingIdx = 0
       THEN [env |-> Append(existing, desired[desiredIdx]), update |-> TRUE]
       ELSE IF existing[existingIdx] # desired[desiredIdx]
       THEN [env |-> [existing EXCEPT ![existingIdx] = desired[desiredIdx]],
             update |-> TRUE]
       ELSE [env |-> existing, update |-> FALSE]

\* The two loops of DeploymentEnvVarReconciler over lists of equal length.
ReconcileEnvOf(desiredCs, existingCs, envVar) ==
    [i \in 1..Len(existingCs) |->
        [existingCs[i] EXCEPT !.env =
            EnvVarReconciler(desiredCs[i].env, @, envVar).env]]

\* DeploymentEnvVarReconciler without the test on the init-container counts:
\* the loop indexes desired with existing's indices.
DeploymentEnvVarReconcilerNoInitTest(m, envVar) ==
    IF Len(m.d.containers) # Len(m.e.containers)
    THEN Res(m, FALSE, "ok")
    ELSE IF Len(m.e.initContainers) > Len(m.d.initContainers)
    THEN Res(m, FALSE, "panic")
    ELSE LET ics == ReconcileEnvOf(m.d.initContainers, m.e.initContainers, envVar)
             cs == ReconcileEnvOf(m.d.containers, m.e.containers, envVar)
             e2 == [m.e EXCEPT !.initContainers = ics, !.containers = cs]
         IN Res(WithE(m, e2), e2 # m.e, "ok")

\* DeploymentEnvVarReconciler without the loop over the init containers.
DeploymentEnvVarReconcilerContainersOnly(m, envVar) ==
    IF \/ Len(m.d.containers) # Len(m.e.containers)
       \/ Len(m.d.initContainers) # Len(m.e.initContainers)
    THEN Res(m, FALSE, "ok")
    ELSE LET cs == ReconcileEnvOf(m.d.containers, m.e.containers, envVar)
             e2 == [m.e EXCEPT !.containers = cs]
         IN Res(WithE(m, e2), e2 # m.e, "ok")

\* updated is the disjunction of the results of the calls of the helper, which
\* returns true exactly when it wrote the list.
DeploymentEnvVarReconciler(m, envVar) ==
    IF \/ Len(m.d.containers) # Len(m.e.containers)
       \/ Len(m.d.initContainers) # Len(m.e.initContainers)
    THEN Res(m, FALSE, "ok")
    ELSE LET ics == ReconcileEnvOf(m.d.initContainers, m.e.initContainers, envVar)
             cs == ReconcileEnvOf(m.d.containers, m.e.containers, envVar)
             updated ==
                 \/ \E i \in 1..Len(m.e.initContainers) :
                        EnvVarReconciler(m.d.initContainers[i].env,
                                         m.e.initContainers[i].env, envVar).update
                 \/ \E i \in 1..Len(m.e.containers) :
                        EnvVarReconciler(m.d.containers[i].env,
                                         m.e.containers[i].env, envVar).update
             e2 == [m.e EXCEPT !.initContainers = ics, !.containers = cs]
         IN Res(WithE(m, e2), updated, "ok")

\* DeploymentPodTemplateLabelsMutator that merges desired's annotations into
\* the labels of the pod template.
DeploymentPodTemplateLabelsMutatorFromAnnotations(m) ==
    LET r == MergeMapStringString(m.e.tlabels, m.d.ann)
    IN Res(WithE(m, [m.e EXCEPT !.tlabels = r.map]), r.modified, "ok")

DeploymentPodTemplateLabelsMutator(m) ==
    LET r == MergeMapStringString(m.e.tlabels, m.d.tlabels)
    IN Res(WithE(m, [m.e EXCEPT !.tlabels = r.map]), r.modified, "ok")

\* DeploymentRemoveDuplicateEnvVarMutator that prunes the first container only.
DeploymentRemoveDuplicateEnvVarMutatorFirstOnly(m) ==
    LET cs == m.e.containers
        pruned == [i \in 1..Len(cs) |->
                      IF i = 1
                      THEN [cs[i] EXCEPT !.env = RemoveDuplicateEnvVars(cs[i].env)]
                      ELSE cs[i]]
    IN Res(WithE(m, [m.e EXCEPT !.containers = pruned]), pruned # cs, "ok")

DeploymentRemoveDuplicateEnvVarMutator(m) ==
    LET cs == m.e.containers
        pruned == [i \in 1..Len(cs) |->
                      [cs[i] EXCEPT !.env = RemoveDuplicateEnvVars(cs[i].env)]]
    IN Res(WithE(m, [m.e EXCEPT !.containers = pruned]), pruned # cs, "ok")

DeploymentPriorityClassMutator(m) ==
    IF m.e.priorityClass # m.d.priorityClass
    THEN Res(WithE(m, [m.e EXCEPT !.priorityClass = m.d.priorityClass]), TRUE, "ok")
    ELSE Res(m, FALSE, "ok")

DeploymentStrategyMutator(m) ==
    IF m.e.strategy # m.d.strategy
    THEN Res(WithE(m, [m.e EXCEPT !.strategy = m.d.strategy]), TRUE, "ok")
    ELSE Res(m, FALSE, "ok")

DeploymentTopologySpreadConstraintsMutator(m) ==
    IF m.e.topology # m.d.topology
    THEN Res(WithE(m, [m.e EXCEPT !.topology = m.d.topology]), TRUE, "ok")
    ELSE Res(m, FALSE, "ok")

DeploymentPodTemplateAnnotationsMutator(m) ==
    LET r == MergeMapStringString(m.e.tann, m.d.tann)
    IN Res(WithE(m, [m.e EXCEPT !.tann = r.map]), r.modified, "ok")

\* DeploymentArgsMutator without the assignment of desired's args.
DeploymentArgsMutatorNoAssign(m) ==
    LET n == Min(Len(m.d.containers), Len(m.e.containers))
    IN IF Len(m.d.containers) > Len(m.e.containers)
       THEN Res(m, FALSE, "panic")
       ELSE Res(m, \E i \in 1..n : m.e.containers[i].args # m.d.containers[i].args,
                "ok")

\* The three per-container mutators below index existing's containers with
\* desired's indices: existing.Containers[i] is out of range, and the call
\* panics, when desired has more containers than existing.  The containers
\* before the missing one have been handled by then.
DeploymentArgsMutator(m) ==
    LET n  == Min(Len(m.d.containers), Len(m.e.containers))
        cs == [i \in 1..Len(m.e.containers) |->
                  IF i <= n
                  THEN [m.e.containers[i] EXCEPT !.args = m.d.containers[i].args]
                  ELSE m.e.containers[i]]
        m2 == WithE(m, [m.e EXCEPT !.containers = cs])
    IN IF Len(m.d.containers) > Len(m.e.containers)
       THEN Res(m2, FALSE, "panic")
       ELSE Res(m2, cs # m.e.containers, "ok")

DeploymentProbesMutator(m) ==
    LET n  == Min(Len(m.d.containers), Len(m.e.containers))
        cs == [i \in 1..Len(m.e.containers) |->
                  IF i <= n
                  THEN [m.e.containers[i] EXCEPT
                           !.liveness = m.d.containers[i].liveness,
                           !.readiness = m.d.containers[i].readiness]
                  ELSE m.e.containers[i]]
        m2 == WithE(m, [m.e EXCEPT !.containers = cs])
    IN IF Len(m.d.containers) > Len(m.e.containers)
       THEN Res(m2, FALSE, "panic")
       ELSE Res(m2, cs # m.e.containers, "ok")

DeploymentPodContainerImageMutator(m) ==
    LET n  == Min(Len(m.d.containers), Len(m.e.containers))
        cs == [i \in 1..Len(m.e.containers) |->
                  IF i <= n
                  THEN [m.e.containers[i] EXCEPT !.image = m.d.containers[i].image]
                  ELSE m.e.containers[i]]
        m2 == WithE(m, [m.e EXCEPT !.containers = cs])
    IN IF Len(m.d.containers) > Len(m.e.containers)
       THEN Res(m2, FALSE, "panic")
       ELSE Res(m2, cs # m.e.containers, "ok")

\* Init containers past the end of existing are appended: a copy of desired's
\* struct, whose slices (mounts, env) keep desired's backing arrays.
\* DeploymentPodInitContainerImageMutator that takes desired's whole init
\* container where the images differ.
DeploymentPodInitContainerImageMutatorWholeContainer(m) ==
    LET de == m.d.initContainers
        ex == m.e.initContainers
        differs(i) == i <= Len(ex) /\ i <= Len(de) /\ ex[i].image # de[i].image
        ics == [i \in 1..Max(Len(ex), Len(de)) |->
                   IF i > Len(ex) \/ differs(i) THEN de[i] ELSE ex[i]]
        sh == [i \in 1..Len(ics) |->
                  IF i > Len(ex) \/ differs(i) THEN TRUE ELSE m.icShare[i]]
    IN Res([m EXCEPT !.e.initContainers = ics, !.icShare = sh],
           Len(de) > Len(ex) \/ \E i \in 1..Len(ex) : differs(i),
           "ok")

DeploymentPodInitContainerImageMutator(m) ==
    LET de == m.d.initContainers
        ex == m.e.initContainers
        ics == [i \in 1..Max(Len(ex), Len(de)) |->
                   IF i > Len(ex) THEN de[i]
                   ELSE IF i <= Len(de) THEN [ex[i] EXCEPT !.image = de[i].image]
                   ELSE ex[i]]
        sh == [i \in 1..Len(ics) |-> IF i > Len(ex) THEN TRUE ELSE m.icShare[i]]
    IN Res([m EXCEPT !.e.initContainers = ics, !.icShare = sh],
           \/ Len(de) > Len(ex)
           \/ \E i \in 1..Min(Len(ex), Len(de)) : ex[i].image # de[i].image,
           "ok")

\* Containers[0] of an existing object without containers is out of range.
FalconArgs == "bin/3scale_backend -s falcon start -e production -p 3000 -x /dev/stdout"
PumaArgs == "bin/3scale_backend start -e production -p 3000 -x /dev/stdout"

SetEnv0(m, env) == WithE(m, [m.e EXCEPT !.containers[1].env = env])
SetArgs0(m, args) == WithE(m, [m.e EXCEPT !.containers[1].args = args])

DeploymentListenerArgsMutator(m) ==
    IF Len(m.e.containers) = 0 THEN Res(m, FALSE, "panic")
    ELSE IF m.e.containers[1].args # FalconArgs
    THEN Res(SetArgs0(m, FalconArgs), TRUE, "ok")
    ELSE Res(m, FALSE, "ok")

\* DeploymentListenerAsyncDisableArgsMutator that never clears update.
DeploymentListenerAsyncDisableArgsMutatorAlwaysTrue(m) ==
    IF Len(m.e.containers) = 0 THEN Res(m, FALSE, "panic")
    ELSE Res(SetArgs0(m, PumaArgs), TRUE, "ok")

DeploymentListenerAsyncDisableArgsMutator(m) ==
    IF Len(m.e.containers) = 0 THEN Res(m, FALSE, "panic")
    ELSE IF m.e.containers[1].args # PumaArgs
    THEN Res(SetArgs0(m, PumaArgs), TRUE, "ok")
    ELSE Res(m, FALSE, "ok")

removeEnvVar(envVars, name) == SelectSeq(envVars, LAMBDA v : v.name # name)

\* The loop of DeploymentListenerAsyncDisableEnvMutator from entry i on:
\* the env list it leaves, whether it returned from inside the loop, and the
\* two flags.
RECURSIVE AsyncDisableLoop(_, _, _, _)
AsyncDisableLoop(env, i, uLW, uCRA) ==
    IF i > Len(env)
    THEN [env |-> env, returned |-> FALSE, uLW |-> uLW, uCRA |-> uCRA]
    ELSE LET v == env[i]
             hitLW == v.name = LW /\ v.value = "1"
             hitCRA == v.name = CRA /\ v.value = "1"
         IN IF hitLW
            THEN [env |-> removeEnvVar(env, LW), returned |-> TRUE,
                  uLW |-> FALSE, uCRA |-> uCRA]
            ELSE IF hitCRA
            THEN [env |-> [env EXCEPT ![i].value = "0"], returned |-> TRUE,
                  uLW |-> uLW, uCRA |-> FALSE]
            ELSE AsyncDisableLoop(env, i + 1, uLW /\ v.name # LW,
                                  uCRA /\ v.name # CRA)

DeploymentListenerAsyncDisableEnvMutator(m) ==
    IF Len(m.e.containers) = 0 THEN Res(m, FALSE, "panic")
    ELSE LET l == AsyncDisableLoop(m.e.containers[1].env, 1, TRUE, TRUE)
             e1 == IF l.uCRA
                   THEN Append(l.env, EnvVarFromValue(CRA, "0"))
                   ELSE l.env
             e2 == IF l.uLW THEN removeEnvVar(e1, LW) ELSE e1
         IN IF l.returned
            THEN Res(SetEnv0(m, l.env), TRUE, "ok")
            ELSE Res(SetEnv0(m, e2), l.uLW \/ l.uCRA, "ok")

\* The loop of DeploymentListenerEnvMutator from entry i on.
RECURSIVE ListenerEnvLoop(_, _, _, _)
ListenerEnvLoop(env, i, uLW, uCRA) ==
    IF i > Len(env)
    THEN [env |-> env, returned |-> FALSE, uLW |-> uLW, uCRA |-> uCRA]
    ELSE LET v == env[i]
             hit == v.name \in {LW, CRA} /\ v.value = "0"
         IN IF hit
            THEN [env |-> [env EXCEPT ![i].value = "1"], returned |-> TRUE,
                  uLW |-> uLW /\ v.name # LW, uCRA |-> uCRA /\ v.name # CRA]
            ELSE ListenerEnvLoop(env, i + 1, uLW /\ v.name # LW,
                                 uCRA /\ v.name # CRA)

DeploymentListenerEnvMutator(m) ==
    IF Len(m.e.containers) = 0 THEN Res(m, FALSE, "panic")
    ELSE LET l == ListenerEnvLoop(m.e.containers[1].env, 1, TRUE, TRUE)
             e1 == IF l.uCRA
                   THEN Append(l.env, EnvVarFromValue(CRA, "1"))
                   ELSE l.env
             e2 == IF l.uLW
                   THEN Append(e1, EnvVarFromValue(LW, "1"))
                   ELSE e1
         IN IF l.returned
            THEN Res(SetEnv0(m, l.env), TRUE, "ok")
            ELSE Res(SetEnv0(m, e2), l.uLW \/ l.uCRA, "ok")

\* The loop shared by the two worker mutators: from is the value that is
\* rewritten to to.  update starts TRUE and is cleared by every
\* CONFIG_REDIS_ASYNC entry that does not hold from.
RECURSIVE WorkerLoop(_, _, _, _, _)
WorkerLoop(env, i, update, from, to) ==
    IF i > Len(env)
    THEN [env |-> env, returned |-> FALSE, update |-> update]
    ELSE LET v == env[i]
         IN IF v.name = CRA /\ v.value = from
            THEN [env |-> [env EXCEPT ![i].value = to], returned |-> TRUE,
                  update |-> TRUE]
            ELSE WorkerLoop(env, i + 1, update /\ v.name # CRA, from, to)

DeploymentWorkerEnvMutator(m) ==
    IF Len(m.e.containers) = 0 THEN Res(m, FALSE, "panic")
    ELSE LET l == WorkerLoop(m.e.containers[1].env, 1, TRUE, "0", "1")
         IN IF l.returned THEN Res(SetEnv0(m, l.env), TRUE, "ok")
            ELSE IF l.update
            THEN Res(SetEnv0(m, Append(l.env, EnvVarFromValue(CRA, "1"))), TRUE, "ok")
            ELSE Res(m, FALSE, "ok")

DeploymentWorkerDisableAsyncEnvMutator(m) ==
    IF Len(m.e.containers) = 0 THEN Res(m, FALSE, "panic")
    ELSE LET l == WorkerLoop(m.e.containers[1].env, 1, TRUE, "1", "0")
         IN IF l.returned THEN Res(SetEnv0(m, l.env), TRUE, "ok")
            ELSE IF l.update
            THEN Res(SetEnv0(m, Append(l.env, EnvVarFromValue(CRA, "0"))), TRUE, "ok")
            ELSE Res(m, FALSE, "ok")

\* DeploymentPodInitContainerMutator without the trim of the init containers
\* that existing has beyond desired's count.
DeploymentPodInitContainerMutatorNoTrim(m) ==
    LET de == m.d.initContainers
        ex == m.e.initContainers
        same(i) == i <= Len(ex) /\ ex[i] = de[i]
        kept == [i \in 1..Max(Len(de), Len(ex)) |->
                    IF i <= Len(de) THEN de[i] ELSE ex[i]]
        sh == [i \in 1..Len(kept) |->
                  IF i > Len(de) \/ same(i) THEN m.icShare[i] ELSE TRUE]
    IN Res([m EXCEPT !.e.initContainers = kept, !.icShare = sh],
           \E i \in 1..Len(de) : ~same(i),
           "ok")

\* existing's init containers become desired's, position by position.  An
\* appended or replaced entry is a copy of desired's struct and keeps
\* desired's backing arrays.
DeploymentPodInitContainerMutator(m) ==
    LET de == m.d.initContainers
        ex == m.e.initContainers
        same(i) == i <= Len(ex) /\ ex[i] = de[i]
        sh == [i \in 1..Len(de) |-> IF same(i) THEN m.icShare[i] ELSE TRUE]
    IN Res([m EXCEPT !.e.initContainers = de, !.icShare = sh],
           Len(ex) > Len(de) \/ \E i \in 1..Len(de) : ~same(i),
           "ok")

volumeExists(volumes, name) == \E i \in 1..Len(volumes) : volumes[i].name = name

volumeMountExists(volumeMounts, name) ==
    \E i \in 1..Len(volumeMounts) : volumeMounts[i].name = name

\* syncVolumeMounts that also takes desired's definition of a mount existing
\* has under the same name.
syncVolumeMountsOverwrite(existingMounts, desiredMounts) ==
    LET missing == SelectSeq(desiredMounts,
                             LAMBDA dm : ~volumeMountExists(existingMounts, dm.name))
        taken == [i \in 1..Len(existingMounts) |->
                    IF volumeMountExists(desiredMounts, existingMounts[i].name)
                    THEN desiredMounts[FirstNamed(desiredMounts, existingMounts[i].name)]
                    ELSE existingMounts[i]]
    IN [changed |-> missing # <<>> \/ taken # existingMounts,
        mounts |-> taken \o missing, added |-> missing]

\* Every desired mount whose name is not in existingMounts is appended; the
\* test reads existingMounts, not the list being built.
syncVolumeMounts(existingMounts, desiredMounts) ==
    LET missing == SelectSeq(desiredMounts,
                             LAMBDA dm : ~volumeMountExists(existingMounts, dm.name))
    IN [changed |-> missing # <<>>, mounts |-> existingMounts \o missing,
        added |-> missing]

\* The volume loop of DeploymentSyncVolumesAndMountsMutator from desired's
\* volume i on; the test reads the list as it grows.
RECURSIVE AddMissingVolumes(_, _, _)
AddMissingVolumes(volumes, desiredVolumes, i) ==
    IF i > Len(desiredVolumes) THEN volumes
    ELSE IF volumeExists(volumes, desiredVolumes[i].name)
    THEN AddMissingVolumes(volumes, desiredVolumes, i + 1)
    ELSE AddMissingVolumes(Append(volumes, desiredVolumes[i]), desiredVolumes, i + 1)

\* append on a mount slice that shares desired's backing array dm (desired's
\* slice is the whole array): the appended entries that fit in the array are
\* written into it, past existing's length.
AppendShared(dm, em, xs) ==
    [i \in 1..Len(dm) |->
        IF i > Len(em) /\ i <= Len(em) + Len(xs) THEN xs[i - Len(em)] ELSE dm[i]]

\* Both loops index desired with existing's indices: a container, or an init
\* container, that existing has and desired has not is out of range.  The
\* volumes and the containers before it have been synced by then.
DeploymentSyncVolumesAndMountsMutator(m) ==
    LET d == m.d
        e == m.e
        vols == AddMissingVolumes(e.volumes, d.volumes, 1)
        nC == Min(Len(e.containers), Len(d.containers))
        cs == [i \in 1..Len(e.containers) |->
                  IF i <= nC
                  THEN [e.containers[i] EXCEPT !.mounts =
                          syncVolumeMounts(e.containers[i].mounts,
                                           d.containers[i].mounts).mounts]
                  ELSE e.containers[i]]
        panicC == Len(e.containers) > Len(d.containers)
        nI == IF panicC THEN 0 ELSE Min(Len(e.initContainers), Len(d.initContainers))
        sy(i) == syncVolumeMounts(e.initContainers[i].mounts,
                                  d.initContainers[i].mounts)
        ics == [i \in 1..Len(e.initContainers) |->
                   IF i <= nI
                   THEN [e.initContainers[i] EXCEPT !.mounts = sy(i).mounts]
                   ELSE e.initContainers[i]]
        dics == [i \in 1..Len(d.initContainers) |->
                   IF i <= nI /\ m.icShare[i]
                   THEN [d.initContainers[i] EXCEPT !.mounts =
                           AppendShared(d.initContainers[i].mounts,
                                        e.initContainers[i].mounts, sy(i).added)]
                   ELSE d.initContainers[i]]
        sh == [i \in 1..Len(e.initContainers) |->
                  /\ m.icShare[i]
                  /\ (i <= nI => Len(ics[i].mounts) <= Len(d.initContainers[i].mounts))]
        panicI == ~panicC /\ Len(e.initContainers) > Len(d.initContainers)
        e2 == [e EXCEPT !.volumes = vols, !.volumesNil = FALSE,
                        !.containers = cs, !.initContainers = ics]
        m2 == [WithE(m, e2) EXCEPT !.d.initContainers = dics, !.icShare = sh]
    IN IF panicC \/ panicI
       THEN Res(m2, FALSE, "panic")
       ELSE Res(m2,
                vols # e.volumes \/ cs # e.containers \/ ics # e.initContainers,
                "ok")

WritableTLS == "writable-tls"
TLSSecret == "tls-secret"

\* The first entry of s named n removed (the loops break after one removal).
RemoveFirst(s, n) ==
    LET k == FirstNamed(s, n) IN IF k = 0 THEN s ELSE RemoveAt(s, k)

RemoveTLSNames(s) == RemoveFirst(RemoveFirst(s, WritableTLS), TLSSecret)

\* append(s[:k], s[k+1:]...) moves the entries after k one place down in the
\* backing array; dm is the array as desired sees it, le existing's length.
ShiftShared(dm, le, k) ==
    [i \in 1..Len(dm) |-> IF i >= k /\ i < le THEN dm[i + 1] ELSE dm[i]]

\* desired's view of a shared mount array after the two removals on em.
ShiftTLSNames(dm, em) ==
    LET k1 == FirstNamed(em, WritableTLS)
        d1 == IF k1 = 0 THEN dm ELSE ShiftShared(dm, Len(em), k1)
        e1 == RemoveFirst(em, WritableTLS)
        k2 == FirstNamed(e1, TLSSecret)
    IN IF k2 = 0 THEN d1 ELSE ShiftShared(d1, Len(e1), k2)

DeploymentRemoveTLSVolumesAndMountsMutator(m) ==
    LET e == m.e
        vols == RemoveTLSNames(e.volumes)
        volumeModified == vols # e.volumes
        cs == [i \in 1..Len(e.containers) |->
                  [e.containers[i] EXCEPT !.mounts = RemoveTLSNames(@)]]
        ics == [i \in 1..Len(e.initContainers) |->
                  [e.initContainers[i] EXCEPT !.mounts = RemoveTLSNames(@)]]
        dics == [i \in 1..Len(m.d.initContainers) |->
                   IF i <= Len(e.initContainers) /\ m.icShare[i]
                   THEN [m.d.initContainers[i] EXCEPT !.mounts =
                           ShiftTLSNames(@, e.initContainers[i].mounts)]
                   ELSE m.d.initContainers[i]]
        e2 == [e EXCEPT !.volumes = vols, !.containers = cs, !.initContainers = ics]
    IN IF e.volumesNil \/ ~volumeModified
       THEN Res(m, FALSE, "ok")
       ELSE Res([WithE(m, e2) EXCEPT !.d.initContainers = dics], TRUE, "ok")

(***************************************************************************)
(* The pipeline.                                                           *)
(***************************************************************************)
\* GenericBackendDeploymentMutators with DeploymentArgsMutator ahead of
\* DeploymentContainerResourcesMutator.
GenericBackendDeploymentMutatorsArgsFirst ==
    << "DeploymentAnnotationsMutator",
       "DeploymentArgsMutator",
       "DeploymentContainerResourcesMutator",
       "DeploymentAffinityMutator",
       "DeploymentTolerationsMutator",
       "DeploymentPodTemplateLabelsMutator",
       "DeploymentPriorityClassMutator",
       "DeploymentTopologySpreadConstraintsMutator",
       "DeploymentPodTemplateAnnotationsMutator",
       "DeploymentProbesMutator",
       "DeploymentPodContainerImageMutator",
       "DeploymentPodInitContainerImageMutator" >>

GenericBackendDeploymentMutators ==
    << "DeploymentAnnotationsMutator",
       "DeploymentContainerResourcesMutator",
       "DeploymentAffinityMutator",
       "DeploymentTolerationsMutator",
       "DeploymentPodTemplateLabelsMutator",
       "DeploymentPriorityClassMutator",
       "DeploymentTopologySpreadConstraintsMutator",
       "DeploymentPodTemplateAnnotationsMutator",
       "DeploymentArgsMutator",
       "DeploymentProbesMutator",
       "DeploymentPodContainerImageMutator",
       "DeploymentPodInitContainerImageMutator" >>

\* The call opt(desired, existing) of the DMutateFn named fn.
CallDMutateFn(fn, m) ==
    CASE fn = "DeploymentAnnotationsMutator" -> DeploymentAnnotationsMutator(m)
      [] fn = "DeploymentReplicasMutator" -> DeploymentReplicasMutator(m)
      [] fn = "DeploymentAffinityMutator" -> DeploymentAffinityMutator(m)
      [] fn = "DeploymentTolerationsMutator" -> DeploymentTolerationsMutator(m)
      [] fn = "DeploymentContainerResourcesMutator" ->
            DeploymentContainerResourcesMutator(m)
      [] fn = "DeploymentPodTemplateLabelsMutator" ->
            DeploymentPodTemplateLabelsMutator(m)
      [] fn = "DeploymentRemoveDuplicateEnvVarMutator" ->
            DeploymentRemoveDuplicateEnvVarMutator(m)
      [] fn = "DeploymentPriorityClassMutator" -> DeploymentPriorityClassMutator(m)
      [] fn = "DeploymentStrategyMutator" -> DeploymentStrategyMutator(m)
      [] fn = "DeploymentTopologySpreadConstraintsMutator" ->
            DeploymentTopologySpreadConstraintsMutator(m)
      [] fn = "DeploymentPodTemplateAnnotationsMutator" ->
            DeploymentPodTemplateAnnotationsMutator(m)
      [] fn = "DeploymentArgsMutator" -> DeploymentArgsMutator(m)
      [] fn = "DeploymentProbesMutator" -> DeploymentProbesMutator(m)
      [] fn = "DeploymentPodContainerImageMutator" ->
            DeploymentPodContainerImageMutator(m)
      [] fn = "DeploymentPodInitContainerImageMutator" ->
            DeploymentPodInitContainerImageMutator(m)
      [] fn = "DeploymentListenerArgsMutator" -> DeploymentListenerArgsMutator(m)
      [] fn = "DeploymentListenerAsyncDisableArgsMutator" ->
            DeploymentListenerAsyncDisableArgsMutator(m)
      [] fn = "DeploymentListenerAsyncDisableEnvMutator" ->
            DeploymentListenerAsyncDisableEnvMutator(m)
      [] fn = "DeploymentListenerEnvMutator" -> DeploymentListenerEnvMutator(m)
      [] fn = "DeploymentWorkerEnvMutator" -> DeploymentWorkerEnvMutator(m)
      [] fn = "DeploymentWorkerDisableAsyncEnvMutator" ->
            DeploymentWorkerDisableAsyncEnvMutator(m)
      [] fn = "DeploymentPodInitContainerMutator" ->
            DeploymentPodInitContainerMutator(m)
      [] fn = "DeploymentSyncVolumesAndMountsMutator" ->
            DeploymentSyncVolumesAndMountsMutator(m)
      [] fn = "DeploymentRemoveTLSVolumesAndMountsMutator" ->
            DeploymentRemoveTLSVolumesAndMountsMutator(m)

\* One entry of the call log: the mutator called and what it returned.
Called(fn, r) == [fn |-> fn, changed |-> r.changed, status |-> r.status]

\* What the loop of DeploymentMutator returns, from option i on, with the
\* log of the calls made: on an error, false and that error.
PipelineResult(m, c, s, log) == [mem |-> m, changed |-> c, status |-> s, trace |-> log]

RECURSIVE DeploymentMutatorLoop(_, _, _, _, _)
DeploymentMutatorLoop(options, i, m, update, log) ==
    IF i > Len(options)
    THEN PipelineResult(m, update, "ok", log)
    ELSE LET r == CallDMutateFn(options[i], m)
             log2 == Append(log, Called(options[i], r))
         IN IF r.status # "ok"
            THEN PipelineResult(r.mem, FALSE, r.status, log2)
            ELSE DeploymentMutatorLoop(options, i + 1, r.mem,
                                       update \/ r.changed, log2)

\* Variants of the loop with one statement changed: "true" returns true at
\* the end, "last" keeps the last result instead of the disjunction, "keep"
\* returns update with the error, "swallow" leaves the loop on an error and
\* returns update without it.
RECURSIVE ChangedLoop(_, _, _, _, _, _)
ChangedLoop(options, i, m, update, log, how) ==
    IF i > Len(options)
    THEN PipelineResult(m, IF how = "true" THEN TRUE ELSE update, "ok", log)
    ELSE LET r == CallDMutateFn(options[i], m)
             log2 == Append(log, Called(options[i], r))
         IN IF r.status = "panic"
            THEN PipelineResult(r.mem, FALSE, r.status, log2)
            ELSE IF r.status = "error"
            THEN PipelineResult(r.mem,
                                IF how \in {"keep", "swallow"} THEN update ELSE FALSE,
                                IF how = "swallow" THEN "ok" ELSE "error", log2)
            ELSE ChangedLoop(options, i + 1, r.mem,
                             IF how = "last" THEN r.changed ELSE update \/ r.changed,
                             log2, how)

DeploymentMutatorReturnsTrue(options, m) == ChangedLoop(options, 1, m, FALSE, <<>>, "true")
DeploymentMutatorLastResult(options, m) == ChangedLoop(options, 1, m, FALSE, <<>>, "last")
DeploymentMutatorKeepsUpdate(options, m) == ChangedLoop(options, 1, m, FALSE, <<>>, "keep")
DeploymentMutatorSwallowsError(options, m) ==
    ChangedLoop(options, 1, m, FALSE, <<>>, "swallow")

\* The MutateFn built by DeploymentMutator(opts...), applied to the memory.
\* DeploymentMutator that asserts the type of existingObj only.
DeploymentMutatorChecksExistingOnly(options, m) ==
    IF m.eKind # "Deployment"
    THEN PipelineResult(m, FALSE, "error", <<>>)
    ELSE DeploymentMutatorLoop(options, 1, m, FALSE, <<>>)

\* The function DeploymentMutator(options...) returns: the two type
\* assertions, then the loop.
DeploymentMutator(options, m) ==
    IF m.eKind # "Deployment"
    THEN PipelineResult(m, FALSE, "error", <<>>)
    ELSE IF m.dKind # "Deployment"
    THEN PipelineResult(m, FALSE, "error", <<>>)
    ELSE DeploymentMutatorLoop(options, 1, m, FALSE, <<>>)

(***************************************************************************)
(* Inputs: the (desired, existing) pairs and the option lists the model    *)
(* starts from.                                                            *)
(***************************************************************************)
NoMap == [k \in {} |-> "v1"]
Keys == {"k1", "k2"}
Maps == UNION {[K -> {"v1", "v2"}] : K \in SUBSET Keys}
DesiredMaps == {NoMap, [k \in {"k1"} |-> "v1"], [k \in Keys |-> "v2"]}

\* The three maps of an object hold the same keys with different values, and
\* each structurally compared field its own value.
Field(f, token) == [field |-> f, value |-> token]

Deployment(ann, replicas, token, containers, initContainers, volumes, volumesNil) ==
    [ann |-> ann,
     tlabels |-> [k \in DOMAIN ann |-> IF ann[k] = "v1" THEN "v2" ELSE "v1"],
     tann |-> [k \in DOMAIN ann |-> "v1"],
     replicas |-> replicas,
     strategy |-> Field("strategy", token),
     affinity |-> Field("affinity", token),
     tolerations |-> Field("tolerations", token),
     priorityClass |-> Field("priorityClassName", token),
     topology |-> Field("topologySpreadConstraints", token),
     containers |-> containers, initContainers |-> initContainers,
     volumes |-> volumes, volumesNil |-> volumesNil]

DesiredC(env, mounts) == Container("image-d", "args-d", "res-d", env, mounts, "probe-d")
ExistingC(env, mounts) == Container("image-e", FalconArgs, "res-e", env, mounts, "probe-e")

Copies(c, n) == [i \in 1..n |-> c]

Pair(d, e) == [d |-> d, e |-> e]

\* Container and init-container counts of both objects, 0..MaxContainers each;
\* desired carries an annotation that existing lacks.
ShapeScenarios ==
    {Pair(Deployment([k \in {"k1"} |-> "v1"], NilPtr, "x",
                     Copies(DesiredC(<<>>, <<>>), nd),
                     Copies(DesiredC(<<>>, <<>>), ndi), <<>>, TRUE),
          Deployment(NoMap, NilPtr, "x", Copies(ExistingC(<<>>, <<>>), ne),
                     Copies(ExistingC(<<>>, <<>>), nei), <<>>, TRUE)) :
        nd \in 0..MaxContainers, ne \in 0..MaxContainers,
        ndi \in 0..MaxContainers, nei \in 0..MaxContainers}

\* Env lists of containers[0]: every list of at most MaxEnv entries.
EnvEntries == {EnvVarFromValue(n, v) : n \in {LW, CRA, "OTHER"}, v \in {"0", "1"}}
EnvLists == SeqUpTo(EnvEntries, MaxEnv)

EnvScenariosOf(lists) ==
    {Pair(Deployment(NoMap, NilPtr, "x", <<DesiredC(env, <<>>)>>, <<>>, <<>>, TRUE),
          Deployment(NoMap, NilPtr, "x", Copies(ExistingC(env, <<>>), ne),
                     <<>>, <<>>, TRUE)) :
        env \in lists, ne \in 1..MaxContainers}

EnvScenarios == EnvScenariosOf(EnvLists)

\* Env reconciliation: desired's containers carry different env lists, its
\* init containers a third one; existing's are any list of at most MaxEnv
\* entries; the counts <<desired containers, existing containers, desired init
\* containers, existing init containers>> agree or differ in one kind.
EnvVarNames == {LW, "OTHER"}
EnvShapes == { <<1, 1, 1, 1>>, <<2, 2, 1, 1>>, <<1, 2, 1, 1>>, <<1, 1, 0, 1>> }
DesiredEnvs ==
    << <<EnvVarFromValue(LW, "1"), EnvVarFromValue(CRA, "0")>>,
       <<EnvVarFromValue("OTHER", "0")>> >>
DesiredInitEnv == <<EnvVarFromValue("OTHER", "1")>>

EnvReconcileScenarios ==
    {Pair(Deployment(NoMap, NilPtr, "x",
                     [i \in 1..sh[1] |-> DesiredC(DesiredEnvs[i], <<>>)],
                     Copies(DesiredC(DesiredInitEnv, <<>>), sh[3]), <<>>, TRUE),
          Deployment(NoMap, NilPtr, "x", Copies(ExistingC(env, <<>>), sh[2]),
                     Copies(ExistingC(env, <<>>), sh[4]), <<>>, TRUE)) :
        env \in EnvLists, sh \in EnvShapes}

\* Volumes and mounts: existing's volume list is nil or any list of at most
\* MaxVolumes volumes, its mounts one of MountLists, in 1..MaxContainers
\* containers and one init container; desired has one of each.
Named(n, who) == [name |-> n, def |-> who]
VolumeNames == {WritableTLS, TLSSecret, "data"}
VolumeLists == {[i \in DOMAIN s |-> Named(s[i], "e")] : s \in SeqUpTo(VolumeNames, MaxVolumes)}
MountLists ==
    { <<>>,
      <<Named(WritableTLS, "e")>>,
      <<Named("data", "e"), Named(TLSSecret, "e")>>,
      <<Named(WritableTLS, "e"), Named("data", "e"), Named(WritableTLS, "e")>> }

DesiredVolumes == <<Named("data", "d"), Named("config", "d")>>
\* desired mounts the volume "data" at two paths.
DesiredMounts ==
    <<Named(WritableTLS, "d"), Named("data", "d"), Named("data", "d2")>>

VolumeScenariosOf(counts) ==
    {Pair(Deployment(NoMap, NilPtr, "x", <<DesiredC(<<>>, DesiredMounts)>>,
                     <<DesiredC(<<>>, DesiredMounts)>>, DesiredVolumes, FALSE),
          Deployment(NoMap, NilPtr, "x", Copies(ExistingC(<<>>, ms), ne),
                     <<ExistingC(<<>>, ms)>>, vs, nil /\ vs = <<>>)) :
        vs \in VolumeLists, ms \in MountLists, nil \in BOOLEAN,
        ne \in counts}

VolumeScenarios == VolumeScenariosOf(1..MaxContainers)

\* Maps and the structurally compared fields.
MapScenarios ==
    {Pair(Deployment(dm, NilPtr, "x", <<DesiredC(<<>>, <<>>)>>, <<>>, <<>>, TRUE),
          Deployment(em, NilPtr, "y", <<ExistingC(<<>>, <<>>)>>, <<>>, <<>>, TRUE)) :
        dm \in DesiredMaps, em \in Maps}

ReplicaScenarios ==
    {Pair(Deployment(NoMap, dr, "x", <<DesiredC(<<>>, <<>>)>>, <<>>, <<>>, TRUE),
          Deployment(NoMap, er, t, <<ExistingC(<<>>, <<>>)>>, <<>>, <<>>, TRUE)) :
        dr \in {NilPtr, Ptr("D", 1), Ptr("D", 2)},
        er \in {NilPtr, Ptr("E", 1)},
        t \in {"x", "y"}}

Scenarios ==
    ShapeScenarios \cup EnvScenarios \cup EnvReconcileScenarios
        \cup VolumeScenarios \cup MapScenarios \cup ReplicaScenarios

\* The stored objects the reconcile invocations start from: the same pairs,
\* with the env lists of a single entry and the volume pairs of one container
\* only (the write-back does not look into the object).
StoredScenarios ==
    ShapeScenarios \cup EnvScenariosOf({<<v>> : v \in EnvEntries})
        \cup VolumeScenariosOf({1}) \cup MapScenarios \cup ReplicaScenarios

\* The option lists handed to DeploymentMutator.
ListenerMutators ==
    GenericBackendDeploymentMutators
        \o << "DeploymentListenerEnvMutator", "DeploymentListenerArgsMutator" >>
SystemMutators ==
    << "DeploymentReplicasMutator", "DeploymentPodInitContainerMutator",
       "DeploymentSyncVolumesAndMountsMutator",
       "DeploymentRemoveTLSVolumesAndMountsMutator" >>
OptsSet == {GenericBackendDeploymentMutators, ListenerMutators, SystemMutators}

\* The memory of an invocation that holds d and e as two separate objects of
\* the kinds dKind and eKind.  An object of another kind is handed over as a
\* common.KubernetesObject like a Deployment; its content is kept in the same
\* record and is never looked at.
MemoryOfKinds(d, e, dKind, eKind) ==
    [d |-> d, e |-> e, cAlias |-> FALSE,
     icShare |-> [i \in 1..Len(e.initContainers) |-> FALSE],
     dKind |-> dKind, eKind |-> eKind]

Memory(d, e) == MemoryOfKinds(d, e, "Deployment", "Deployment")

\* A DMutateFn takes two *k8sappsv1.Deployment.
BothDeployments(m) == m.dKind = "Deployment" /\ m.eKind = "Deployment"

\* The kinds of the two objects of a pair: any for the pairs of MapScenarios,
\* Deployments for the others.
Kinds == {"Deployment", "ConfigMap"}
KindsOf(sc) ==
    IF sc \in MapScenarios THEN Kinds \X Kinds ELSE {<<"Deployment", "Deployment">>}

(***************************************************************************)
(* The operator process (main.go) and the AMP images reconciler.           *)
(***************************************************************************)
\* os.LookupEnv("WATCH_NAMESPACE"): whether the variable is set, and its
\* value.  A set variable may hold the empty string.
WatchNamespaceEnvs ==
    { [found |-> FALSE, value |-> ""],
      [found |-> TRUE, value |-> ""],
      [found |-> TRUE, value |-> "3scale"] }

getWatchNamespaceNoLookup(e) == [ns |-> e.value, err |-> "nil"]

getWatchNamespace(e) ==
    IF ~e.found THEN [ns |-> "", err |-> "WATCH_NAMESPACE must be set"]
    ELSE [ns |-> e.value, err |-> "nil"]

\* The controllers main registers, in source order.
Controllers ==
    << "APIManager", "APIManagerBackup", "APIManagerRestore", "Tenant",
       "Backend", "Product", "OpenAPI", "WebConsole", "ActiveDoc",
       "CustomPolicyDefinition", "DeveloperAccount", "DeveloperUser",
       "ProxyConfigPromote" >>

\* A process at the first statement of main after flag.Parse: nothing looked
\* up, no manager, no discovery client, no controller.
NewProcess(enableLeaderElection) ==
    [pc |-> "getWatchNamespace",
     enableLeaderElection |-> enableLeaderElection,
     namespace |-> "", nsFound |-> FALSE,
     mgrCreated |-> FALSE, mgrNamespace |-> "", mgrLeaderElection |-> FALSE,
     next |-> 1, discovery |-> 0, registered |-> <<>>, metrics |-> FALSE,
     started |-> FALSE, failedAt |-> "none", exit |-> 0]

\* os.Exit(code) after step failed (a panic ends the process with status 2).
Exit(p, step, code) == [p EXCEPT !.pc = "exited", !.failedAt = step, !.exit = code]

\* Where main goes after controller i was registered: the metrics are
\* registered between DeveloperUser and ProxyConfigPromote, the manager is
\* started after the last controller.
AfterSetup(i) ==
    IF i = Len(Controllers) THEN "start"
    ELSE IF Controllers[i] = "DeveloperUser" THEN "registerMetrics"
    ELSE "NewDiscoveryClient"

MainNotStarted ==
    /\ osEnv = [found |-> FALSE, value |-> ""]
    /\ proc = NewProcess(FALSE)

\* The APIManager resources a reconciler may be built for.
APIManagers == {"apimanager-a", "apimanager-b", "apimanager-c"}

\* The errors the two steps of AMPImagesReconciler.Reconcile may return.
OptionsErrors == {"options: invalid", "options: secret not found"}
AccountErrors == {"serviceaccount: forbidden", "serviceaccount: conflict"}

\* reconcile.Result{}
EmptyResult == [Requeue |-> FALSE, RequeueAfter |-> 0]

NilOptions == [apimanager |-> "nil"]
NoServiceAccount == [options |-> NilOptions]

\* optsProvider.GetAmpImagesOptions(): the options of the APIManager, or the
\* error err the provider met.
GetAmpImagesOptions(apimanager, err) ==
    IF err # "nil" THEN [opts |-> NilOptions, err |-> err]
    ELSE [opts |-> [apimanager |-> apimanager], err |-> "nil"]

\* component.NewAmpImages(opts)
NewAmpImages(options) == [options |-> options]

\* ampImages.DeploymentsServiceAccount()
DeploymentsServiceAccount(ampImages) == [options |-> ampImages.options]

AmpImages(apimanager, optsErr) ==
    LET got == GetAmpImagesOptions(apimanager, optsErr)
    IN  IF got.err # "nil" THEN [ampImages |-> NewAmpImages(NilOptions), err |-> got.err]
        ELSE [ampImages |-> NewAmpImages(got.opts), err |-> "nil"]

StepCalled(fn, err) == [fn |-> fn, err |-> err]

AmpReturn(result, err, called, handed) ==
    [result |-> result, err |-> err, called |-> called, handed |-> handed]

\* The reconciler has not returned anything yet.
NoReturn == AmpReturn(EmptyResult, "nil", <<>>, NoServiceAccount)

AMPImagesReconcilerReconcileGoesOn(apimanager, optsErr, saErr) ==
    LET a == AmpImages(apimanager, optsErr)
        sa == DeploymentsServiceAccount(a.ampImages)
    IN  AmpReturn(EmptyResult, saErr,
                  <<StepCalled("AmpImages", a.err),
                    StepCalled("ReconcileServiceAccount", saErr)>>, sa)

\* AMPImagesReconciler.Reconcile() of a reconciler built for apimanager;
\* optsErr and saErr are what the options provider and
\* ReconcileServiceAccount return when called ("nil": success).
AMPImagesReconcilerReconcile(apimanager, optsErr, saErr) ==
    LET a == AmpImages(apimanager, optsErr)
    IN  IF a.err # "nil"
        THEN AmpReturn(EmptyResult, a.err, <<StepCalled("AmpImages", a.err)>>,
                       NoServiceAccount)
        ELSE LET sa == DeploymentsServiceAccount(a.ampImages)
                 called == <<StepCalled("AmpImages", "nil"),
                             StepCalled("ReconcileServiceAccount", saErr)>>
             IN  IF saErr # "nil"
                 THEN AmpReturn(EmptyResult, saErr, called, sa)
                 ELSE AmpReturn(EmptyResult, "nil", called, sa)

AmpNotBuilt ==
    /\ apiManager = "apimanager-a"
    /\ serviceAccount = NoServiceAccount
    /\ ampRet = NoReturn

(***************************************************************************)
(* Spec: mutators and pipelines called on one (desired, existing) pair.    *)
(***************************************************************************)
MutatorNames ==
    { "DeploymentAnnotationsMutator", "DeploymentReplicasMutator",
      "DeploymentAffinityMutator", "DeploymentTolerationsMutator",
      "DeploymentContainerResourcesMutator", "DeploymentPodTemplateLabelsMutator",
      "DeploymentRemoveDuplicateEnvVarMutator", "DeploymentPriorityClassMutator",
      "DeploymentStrategyMutator", "DeploymentTopologySpreadConstraintsMutator",
      "DeploymentPodTemplateAnnotationsMutator", "DeploymentArgsMutator",
      "DeploymentProbesMutator", "DeploymentPodContainerImageMutator",
      "DeploymentPodInitContainerImageMutator", "DeploymentListenerArgsMutator",
      "DeploymentListenerAsyncDisableArgsMutator",
      "DeploymentListenerAsyncDisableEnvMutator", "DeploymentListenerEnvMutator",
      "DeploymentWorkerEnvMutator", "DeploymentWorkerDisableAsyncEnvMutator",
      "DeploymentPodInitContainerMutator", "DeploymentSyncVolumesAndMountsMutator",
      "DeploymentRemoveTLSVolumesAndMountsMutator" }

Init ==
    /\ \E sc \in Scenarios :
          /\ \E k \in KindsOf(sc) :
                /\ mem = MemoryOfKinds(sc.d, sc.e, k[1], k[2])
                /\ prev = MemoryOfKinds(sc.d, sc.e, k[1], k[2])
          /\ desired0 = sc.d
          /\ store = sc.e
          /\ lastEdit = sc.e
    /\ last = "none" /\ rep = FALSE /\ changed = FALSE /\ status = "ok"
    /\ trace = <<>> /\ calls = 0 /\ opts = <<>>
    /\ storeVer = 0 /\ edits = 0 /\ fetchedVer = 0
    /\ pc = "call" /\ writes = 0 /\ outcome = "none"
    /\ MainNotStarted /\ AmpNotBuilt

\* A behaviour of Spec calls one function, a mutator or a pipeline, again and
\* again on the same pair.  A panic ends the process: nothing is called after
\* it.
CanCall(fn, o) ==
    /\ pc = "call" /\ status # "panic" /\ calls < MaxCalls
    /\ last = "none" \/ (last = fn /\ opts = o)

\* One call fn(desired, existing) of a mutator.
Call(fn) ==
    /\ CanCall(fn, <<>>)
    /\ BothDeployments(mem)
    /\ LET r == CallDMutateFn(fn, mem)
       IN /\ mem' = r.mem
          /\ changed' = r.changed
          /\ status' = r.status
          /\ trace' = <<Called(fn, r)>>
    /\ prev' = mem
    /\ rep' = (last = fn /\ status = "ok")
    /\ last' = fn
    /\ calls' = calls + 1
    /\ UNCHANGED <<opts, desired0, storeVars, recVars>>
    /\ UNCHANGED <<mainVars, ampVars>>

CallMutator == \E fn \in MutatorNames : Call(fn)

\* One call of the function built by DeploymentMutator(o...).
CallPipeline ==
    \E o \in OptsSet :
        /\ CanCall("DeploymentMutator", o)
        /\ LET r == DeploymentMutator(o, mem)
           IN /\ mem' = r.mem
              /\ changed' = r.changed
              /\ status' = r.status
              /\ trace' = r.trace
        /\ prev' = mem
        /\ rep' = (last = "DeploymentMutator" /\ status = "ok")
        /\ last' = "DeploymentMutator"
        /\ opts' = o
        /\ calls' = calls + 1
        /\ UNCHANGED <<desired0, storeVars, recVars>>
        /\ UNCHANGED <<mainVars, ampVars>>

\* One call DeploymentEnvVarReconciler(desired, existing, n); the function
\* returns a bool and no error.
CallEnvVarReconciler ==
    \E n \in EnvVarNames :
        /\ CanCall("DeploymentEnvVarReconciler", <<n>>)
        /\ BothDeployments(mem)
        /\ LET r == DeploymentEnvVarReconciler(mem, n)
           IN /\ mem' = r.mem
              /\ changed' = r.changed
              /\ status' = r.status
              /\ trace' = <<Called("DeploymentEnvVarReconciler", r)>>
        /\ prev' = mem
        /\ rep' = (last = "DeploymentEnvVarReconciler" /\ status = "ok")
        /\ last' = "DeploymentEnvVarReconciler"
        /\ opts' = <<n>>
        /\ calls' = calls + 1
        /\ UNCHANGED <<desired0, storeVars, recVars>>
        /\ UNCHANGED <<mainVars, ampVars>>

Next == CallMutator \/ CallPipeline \/ CallEnvVarReconciler

Spec == Init /\ [][Next]_vars

(***************************************************************************)
(* RecSpec: reconcile invocations of the base reconciler against the       *)
(* object store, for an object the store holds.                            *)
(*     Fetch existing -> run pipeline -> write back iff changed            *)
(* The scheduling layer starts an invocation per request; somebody else    *)
(* may edit the stored object at any moment.                               *)
(***************************************************************************)
\* The object as the store returns it: decoding allocates afresh, and an
\* empty volume list comes back nil.
Stored(e) ==
    [e EXCEPT !.replicas = IF @.ptr = "nil" THEN @ ELSE Ptr("E", @.val),
              !.volumesNil = (e.volumes = <<>>)]

RecInit ==
    /\ \E sc \in StoredScenarios, o \in OptsSet :
          /\ store = Stored(sc.e)
          /\ lastEdit = Stored(sc.e)
          /\ desired0 = sc.d
          /\ opts = o
          /\ mem = Memory(sc.d, Stored(sc.e))
          /\ prev = Memory(sc.d, Stored(sc.e))
    /\ last = "none" /\ rep = FALSE /\ changed = FALSE /\ status = "ok"
    /\ trace = <<>> /\ calls = 0
    /\ storeVer = 0 /\ edits = 0 /\ fetchedVer = 0
    /\ pc = "idle" /\ writes = 0 /\ outcome = "none"
    /\ MainNotStarted /\ AmpNotBuilt

\* Get: the invocation starts with a fresh desired object and a fresh copy
\* of the stored one.
Fetch ==
    /\ pc = "idle" /\ calls < MaxInvocations
    /\ mem' = Memory(desired0, store)
    /\ prev' = Memory(desired0, store)
    /\ fetchedVer' = storeVer
    /\ calls' = calls + 1
    /\ pc' = "fetched"
    /\ writes' = 0 /\ outcome' = "none"
    /\ changed' = FALSE /\ status' = "ok" /\ trace' = <<>>
    /\ rep' = (outcome = "requeue")
    /\ last' = "Fetch"
    /\ UNCHANGED <<opts, desired0, storeVars>>
    /\ UNCHANGED <<mainVars, ampVars>>

\* The pipeline runs in memory; a panic takes the process down.
RunPipeline ==
    /\ pc = "fetched"
    /\ LET r == DeploymentMutator(opts, mem)
       IN /\ mem' = r.mem
          /\ changed' = r.changed
          /\ status' = r.status
          /\ trace' = r.trace
          /\ pc' = IF r.status = "panic" THEN "crashed" ELSE "ran"
          /\ outcome' = IF r.status = "panic" THEN "panic" ELSE outcome
    /\ UNCHANGED <<prev, last, rep, calls, opts, desired0, storeVars,
                   fetchedVer, writes>>
    /\ UNCHANGED <<mainVars, ampVars>>

\* WriteBack without the version check taking effect: the stale object is
\* stored all the same.
WriteBackForce ==
    /\ pc = "ran" /\ status = "ok" /\ changed
    /\ writes' = writes + 1
    /\ store' = Stored(mem.e)
    /\ storeVer' = storeVer + 1
    /\ outcome' = IF fetchedVer = storeVer THEN "ok" ELSE "requeue"
    /\ pc' = "done"
    /\ UNCHANGED <<memVars, desired0, lastEdit, edits, fetchedVer>>
    /\ UNCHANGED <<mainVars, ampVars>>

\* Update(existing, fetched version): refused when the stored object has
\* moved on, and then reported for a requeue.
WriteBack ==
    /\ pc = "ran" /\ status = "ok" /\ changed
    /\ writes' = writes + 1
    /\ IF fetchedVer = storeVer
       THEN /\ store' = Stored(mem.e)
            /\ storeVer' = storeVer + 1
            /\ outcome' = "ok"
       ELSE /\ UNCHANGED <<store, storeVer>>
            /\ outcome' = "requeue"
    /\ pc' = "done"
    /\ UNCHANGED <<memVars, desired0, lastEdit, edits, fetchedVer>>
    /\ UNCHANGED <<mainVars, ampVars>>

\* No write: nothing changed, or the pipeline returned an error.
NoWrite ==
    /\ pc = "ran" /\ (status = "error" \/ ~changed)
    /\ outcome' = IF status = "error" THEN "error" ELSE "ok"
    /\ pc' = "done"
    /\ UNCHANGED <<memVars, desired0, storeVars, fetchedVer, writes>>
    /\ UNCHANGED <<mainVars, ampVars>>

\* The scheduling layer hands the next request for the object to a worker.
Requeue ==
    /\ pc = "done"
    /\ pc' = "idle"
    /\ UNCHANGED <<memVars, desired0, storeVars, fetchedVer, writes, outcome>>
    /\ UNCHANGED <<mainVars, ampVars>>

\* Somebody else writes the stored object (here: sets an annotation).
ExternalEdit ==
    /\ edits < MaxEdits /\ pc # "crashed"
    /\ LET edited == [store EXCEPT !.ann =
                         [k \in (DOMAIN @) \cup {"edited"} |->
                             IF k = "edited" THEN "by-hand" ELSE @[k]]]
       IN /\ store' = edited
          /\ lastEdit' = edited
    /\ storeVer' = storeVer + 1
    /\ edits' = edits + 1
    /\ UNCHANGED <<memVars, desired0, recVars>>
    /\ UNCHANGED <<mainVars, ampVars>>

RecNext == Fetch \/ RunPipeline \/ WriteBack \/ NoWrite \/ Requeue \/ ExternalEdit

RecSpec == RecInit /\ [][RecNext]_vars

(***************************************************************************)
(* MainSpec: the operator process from the first statement of main to the  *)
(* return of the manager.                                                  *)
(***************************************************************************)
\* No pair is being reconciled: the reconcilers run under the manager only.
ReconcilersIdle ==
    LET sc == CHOOSE s \in MapScenarios : TRUE
    IN  /\ mem = Memory(sc.d, sc.e) /\ prev = Memory(sc.d, sc.e)
        /\ desired0 = sc.d /\ store = sc.e /\ lastEdit = sc.e
        /\ last = "none" /\ rep = FALSE /\ changed = FALSE /\ status = "ok"
        /\ trace = <<>> /\ calls = 0 /\ opts = <<>>
        /\ storeVer = 0 /\ edits = 0 /\ fetchedVer = 0
        /\ pc = "idle" /\ writes = 0 /\ outcome = "none"

MainInit ==
    /\ osEnv \in WatchNamespaceEnvs
    /\ \E le \in BOOLEAN : proc = NewProcess(le)
    /\ ReconcilersIdle /\ AmpNotBuilt

MainUnchanged == UNCHANGED <<memVars, desired0, storeVars, recVars, osEnv, ampVars>>

\* namespace, err := getWatchNamespace(); an error ends the process.
MainGetWatchNamespace ==
    /\ proc.pc = "getWatchNamespace"
    /\ LET r == getWatchNamespace(osEnv)
       IN  proc' = IF r.err # "nil" THEN Exit(proc, "getWatchNamespace", 1)
                   ELSE [proc EXCEPT !.namespace = r.ns, !.nsFound = TRUE,
                                     !.pc = "NewManager"]
    /\ MainUnchanged

\* mgr, err := ctrl.NewManager(ctrl.GetConfigOrDie(), ctrl.Options{...}); an
\* error ends the process, and so does a configuration GetConfigOrDie cannot
\* load.
MainNewManager ==
    /\ proc.pc = "NewManager"
    /\ \E ok \in BOOLEAN :
          proc' = IF ~ok THEN Exit(proc, "NewManager", 1)
                  ELSE [proc EXCEPT !.mgrCreated = TRUE,
                                    !.mgrNamespace = proc.namespace,
                                    !.mgrLeaderElection = proc.enableLeaderElection,
                                    !.pc = "NewDiscoveryClient"]
    /\ MainUnchanged

\* discovery.NewDiscoveryClientForConfig(mgr.GetConfig()) for the next
\* controller; an error ends the process.
MainNewDiscoveryClient ==
    /\ proc.pc = "NewDiscoveryClient"
    /\ \E ok \in BOOLEAN :
          proc' = IF ~ok THEN Exit(proc, "NewDiscoveryClient", 1)
                  ELSE [proc EXCEPT !.discovery = @ + 1, !.pc = "SetupWithManager"]
    /\ MainUnchanged

\* (&XReconciler{...}).SetupWithManager(mgr) of the next controller, with the
\* discovery client just created; an error ends the process.
MainSetupWithManager ==
    /\ proc.pc = "SetupWithManager"
    /\ \E ok \in BOOLEAN :
          proc' = IF ~ok THEN Exit(proc, "SetupWithManager", 1)
                  ELSE [proc EXCEPT !.registered = Append(@, Controllers[proc.next]),
                                    !.next = @ + 1,
                                    !.pc = AfterSetup(proc.next)]
    /\ MainUnchanged

\* registerThreescaleMetricsIntoControllerRuntimeMetricsRegistry():
\* MustRegister panics when the registry refuses the collector.
MainRegisterMetrics ==
    /\ proc.pc = "registerMetrics"
    /\ \E ok \in BOOLEAN :
          proc' = IF ~ok THEN Exit(proc, "registerMetrics", 2)
                  ELSE [proc EXCEPT !.metrics = TRUE, !.pc = "NewDiscoveryClient"]
    /\ MainUnchanged

\* mgr.Start(ctrl.SetupSignalHandler()) is entered.
MainStartManager ==
    /\ proc.pc = "start"
    /\ proc' = [proc EXCEPT !.started = TRUE, !.pc = "running"]
    /\ MainUnchanged

\* mgr.Start returns: with an error the process exits with 1, without one
\* main returns.
MainManagerReturns ==
    /\ proc.pc = "running"
    /\ \E ok \in BOOLEAN :
          proc' = IF ~ok THEN Exit(proc, "Start", 1)
                  ELSE [proc EXCEPT !.pc = "exited", !.exit = 0]
    /\ MainUnchanged

MainNext ==
    \/ MainGetWatchNamespace \/ MainNewManager \/ MainNewDiscoveryClient
    \/ MainSetupWithManager \/ MainRegisterMetrics \/ MainStartManager
    \/ MainManagerReturns

MainSpec == MainInit /\ [][MainNext]_vars

(***************************************************************************)
(* AmpSpec: AMPImagesReconciler.Reconcile called again and again.          *)
(***************************************************************************)
AmpInit ==
    /\ apiManager \in APIManagers
    /\ serviceAccount = NoServiceAccount
    /\ ampRet = NoReturn
    /\ ReconcilersIdle /\ MainNotStarted

\* One call of Reconcile; serviceAccount is the last desired service account
\* handed to ReconcileServiceAccount.
AmpReconcile ==
    /\ calls < MaxCalls
    /\ \E optsErr \in {"nil"} \cup OptionsErrors, saErr \in {"nil"} \cup AccountErrors :
          LET r == AMPImagesReconcilerReconcile(apiManager, optsErr, saErr)
          IN  /\ ampRet' = r
              /\ serviceAccount' =
                    IF \E i \in 1..Len(r.called) : r.called[i].fn = "ReconcileServiceAccount"
                    THEN r.handed ELSE serviceAccount
    /\ calls' = calls + 1
    /\ UNCHANGED <<mem, prev, last, rep, changed, status, trace, opts>>
    /\ UNCHANGED <<desired0, storeVars, recVars, mainVars, apiManager>>

\* NewAMPImagesReconciler: a reconciler for another APIManager.
AmpNewReconciler ==
    /\ edits < MaxEdits
    /\ \E a \in APIManagers \ {apiManager} : apiManager' = a
    /\ ampRet' = NoReturn
    /\ edits' = edits + 1
    /\ UNCHANGED <<memVars, desired0, store, storeVer, lastEdit, recVars>>
    /\ UNCHANGED <<mainVars, serviceAccount>>

AmpNext == AmpReconcile \/ AmpNewReconciler

AmpSpec == AmpInit /\ [][AmpNext]_vars

(***************************************************************************)
(* Properties.                                                             *)
(***************************************************************************)
AnyChanged(log) == \E i \in 1..Len(log) : log[i].changed
NoFailure(log) == \A i \in 1..Len(log) : log[i].status = "ok"
Aborted(log) == \E i \in 1..Len(log) : log[i].status = "error"
IsPipelineCall == last = "DeploymentMutator"

\* C1: an invocation issues exactly one write when the pipeline returned
\* changed=true without error (every mutator returned a nil error and one of
\* them returned true), no write when it returned changed=false or an error,
\* and never two.
WriteCountMatchesPipeline ==
    /\ writes <= 1
    /\ pc \in {"fetched", "ran", "crashed"} => writes = 0
    /\ pc = "done" =>
          /\ writes = (IF status = "ok" /\ changed THEN 1 ELSE 0)
          /\ writes = (IF NoFailure(trace) /\ AnyChanged(trace) THEN 1 ELSE 0)

OneWriteIssued == pc = "done" /\ writes = 1 /\ changed /\ store # prev.e

\* C2: when no mutator returns an error, the pipeline has called every
\* mutator of opts once, in list order, and returns the disjunction of their
\* results.
PipelineCallsAllInOrder ==
    (IsPipelineCall /\ status = "ok") =>
        /\ Len(trace) = Len(opts)
        /\ \A i \in 1..Len(opts) : trace[i].fn = opts[i] /\ trace[i].status = "ok"
        /\ changed = AnyChanged(trace)

PipelineRanMixedResults ==
    /\ IsPipelineCall /\ status = "ok" /\ changed
    /\ ~trace[Len(trace)].changed
    /\ \E i \in 1..Len(trace) : trace[i].changed

\* C3: when the i-th mutator returns an error, no later mutator is called
\* and the pipeline returns that error with changed=false, even when an
\* earlier mutator had returned true.
PipelineStopsAtFirstError ==
    (IsPipelineCall /\ Aborted(trace)) =>
        /\ status = "error" /\ changed = FALSE
        /\ Len(trace) <= Len(opts)
        /\ \A i \in 1..Len(trace) :
              /\ trace[i].fn = opts[i]
              /\ trace[i].status = "error" <=> i = Len(trace)

ErrorAfterChange ==
    /\ IsPipelineCall /\ status = "error"
    /\ Len(trace) < Len(opts)
    /\ \E i \in 1..(Len(trace) - 1) : trace[i].changed

\* C4: when the pipeline aborts with an error, the invocation leaves the
\* stored object as it fetched it (or as an external edit left it): what the
\* earlier mutators changed in memory is not flushed.
AbortedPipelineWritesNothing ==
    (pc = "done" /\ Aborted(trace)) =>
        /\ writes = 0
        /\ storeVer = fetchedVer => store = prev.e
        /\ storeVer # fetchedVer => store = lastEdit

AbortedWithMemoryChanged ==
    /\ pc = "done" /\ Aborted(trace)
    /\ mem.e # prev.e /\ store = prev.e

\* C5: for every mutator m, a second call of m on the result of a first
\* successful call returns changed=false and leaves existing unchanged.
MutatorsIdempotent ==
    (rep /\ last \in MutatorNames /\ status = "ok") =>
        (changed = FALSE /\ mem.e = prev.e)

\* C6: a mutator applied repeatedly to the same existing object returns
\* changed=true only a bounded number of times.  A call that returns true and
\* leaves desired and existing exactly as they were returns true on every
\* later call, so the claim requires that no such call exists.
MutatorsEventuallyQuiet ==
    (last \in MutatorNames /\ status = "ok" /\ mem = prev) => changed = FALSE

\* C7: a second run of the pipeline of GenericBackendDeploymentMutators on
\* the result of a first successful run returns changed=false and leaves
\* existing unchanged.
GenericPipelineIdempotent ==
    (rep /\ IsPipelineCall /\ opts = GenericBackendDeploymentMutators
         /\ status = "ok") =>
        (changed = FALSE /\ mem.e = prev.e)

GenericPipelineRanTwice ==
    /\ rep /\ IsPipelineCall /\ opts = GenericBackendDeploymentMutators
    /\ status = "ok" /\ calls = 2
    /\ mem.e # store

\* C8: no mutator and no pipeline modifies the desired object.
DesiredReadOnly == mem.d = desired0

\* C9: a write refused for a stale version leaves the external edit in the
\* store and ends the invocation with a requeue, not an error; the invocation
\* that follows runs the pipeline on a freshly fetched object.
ConflictRequeues ==
    /\ [][(pc = "ran" /\ writes' = writes + 1 /\ fetchedVer # storeVer) =>
             /\ store' = store /\ store' = lastEdit
             /\ outcome' = "requeue" /\ pc' = "done"]_vars
    /\ [][(outcome = "requeue" /\ pc = "idle" /\ pc' # pc) =>
             /\ pc' = "fetched"
             /\ mem'.e = store /\ mem'.d = desired0
             /\ fetchedVer' = storeVer]_vars

RefetchedAfterConflict ==
    /\ rep /\ pc = "fetched" /\ calls = 2
    /\ edits = 1 /\ mem.e = lastEdit /\ mem.e = store

\* C10: for every combination of container and init-container counts no
\* mutator accesses a container out of range.
NoOutOfRangeAccess == status # "panic"

\* C11: DeploymentContainerResourcesMutator called with a desired object whose
\* container count is not exactly 1 returns an error and changed = false and
\* leaves the memory, existing included, as it was, whatever the container
\* count of existing.
ResourcesRejectsBadDesired ==
    (last = "DeploymentContainerResourcesMutator" /\ Len(prev.d.containers) # 1)
        => (status = "error" /\ changed = FALSE /\ mem = prev)

\* The mutator has been called with two desired containers on an existing
\* object without containers (which a single desired container would recreate).
ResourcesCalledWithTwoDesired ==
    /\ last = "DeploymentContainerResourcesMutator"
    /\ Len(prev.d.containers) = 2 /\ Len(prev.e.containers) = 0
    /\ status = "error"

\* C12: DeploymentContainerResourcesMutator with exactly one desired container:
\* when existing's container count differs from 1 existing's container list
\* becomes desired's and changed = true; when it is 1 only
\* containers[0].Resources is compared and replaced, changed = true iff it
\* differed, and nothing else of existing changes.  Either way
\* containers[0].Resources of existing is desired's afterwards.
ResourcesSyncsSingleContainer ==
    (last = "DeploymentContainerResourcesMutator" /\ Len(prev.d.containers) = 1)
        => /\ status = "ok"
           /\ mem.e.containers[1].resources = prev.d.containers[1].resources
           /\ IF Len(prev.e.containers) # 1
              THEN /\ changed = TRUE
                   /\ mem.e = [prev.e EXCEPT !.containers = prev.d.containers]
              ELSE /\ changed = ~CmpResources(prev.e.containers[1].resources,
                                              prev.d.containers[1].resources)
                   /\ mem.e = [prev.e EXCEPT !.containers[1].resources =
                                                prev.d.containers[1].resources]

\* The mutator has replaced the resources of the one container of existing,
\* whose other fields differ from desired's.
ResourcesReplacedInPlace ==
    /\ last = "DeploymentContainerResourcesMutator"
    /\ Len(prev.d.containers) = 1 /\ Len(prev.e.containers) = 1
    /\ prev.e.containers[1].image # prev.d.containers[1].image
    /\ changed = TRUE /\ status = "ok"

\* Number of entries of env named n.
Occurs(env, n) == Cardinality({i \in 1..Len(env) : env[i].name = n})

IsEnvReconcilerCall == last = "DeploymentEnvVarReconciler"

SameCounts(m) ==
    /\ Len(m.d.containers) = Len(m.e.containers)
    /\ Len(m.d.initContainers) = Len(m.e.initContainers)

\* C13: DeploymentEnvVarReconciler returns changed = false and leaves the
\* memory, existing included, as it was whenever desired and existing differ in
\* container count or in init-container count; an env list is written only
\* when both counts are equal.
EnvReconcilerSkipsShapeMismatch ==
    (IsEnvReconcilerCall /\ ~SameCounts(prev))
        => (changed = FALSE /\ status = "ok" /\ mem = prev)

\* The reconciler has been called with differing init-container counts on a
\* pair whose first containers it would have reconciled: desired holds the
\* named entry, existing does not.
EnvReconcilerSkippedInitMismatch ==
    /\ IsEnvReconcilerCall
    /\ Len(prev.d.initContainers) # Len(prev.e.initContainers)
    /\ Len(prev.d.containers) = 1 /\ Len(prev.e.containers) = 1
    /\ FirstNamed(prev.d.containers[1].env, opts[1]) > 0
    /\ FirstNamed(prev.e.containers[1].env, opts[1]) = 0

\* The env list the reconciliation of the entry named n leaves, from desired's
\* list de and existing's list ee: desired's entry appended when only desired
\* has it, existing's entry replaced by desired's when both have it, and an
\* entry that only existing has removed or kept.
ExpectedEnv(de, ee, n, removes) ==
    IF FirstNamed(de, n) > 0 /\ FirstNamed(ee, n) = 0
    THEN Append(ee, de[FirstNamed(de, n)])
    ELSE IF FirstNamed(de, n) > 0
    THEN [ee EXCEPT ![FirstNamed(ee, n)] = de[FirstNamed(de, n)]]
    ELSE IF removes
    THEN SelectSeq(ee, LAMBDA x : x.name # n)
    ELSE ee

ExpectedContainers(dcs, ecs, n, removes) ==
    [i \in 1..Len(ecs) |->
        [ecs[i] EXCEPT !.env = ExpectedEnv(dcs[i].env, @, n, removes)]]

\* No env list of m holds two entries named n.
NamedOnce(m, n) ==
    \A o \in {m.d, m.e} :
        /\ \A i \in 1..Len(o.containers) : Occurs(o.containers[i].env, n) <= 1
        /\ \A i \in 1..Len(o.initContainers) :
              Occurs(o.initContainers[i].env, n) <= 1

\* After a call with equal counts on lists that name opts[1] at most once:
\* every container and init container of existing holds ExpectedEnv of the
\* pair at its index, nothing else of existing changed, and changed is true
\* iff existing was modified.
EnvReconciled(removes) ==
    (IsEnvReconcilerCall /\ SameCounts(prev) /\ NamedOnce(prev, opts[1]))
        => /\ status = "ok"
           /\ mem.e =
                [prev.e EXCEPT
                    !.containers = ExpectedContainers(prev.d.containers, @,
                                                      opts[1], removes),
                    !.initContainers = ExpectedContainers(prev.d.initContainers, @,
                                                          opts[1], removes)]
           /\ changed = (mem.e # prev.e)

MapMutators ==
    { <<"DeploymentAnnotationsMutator", "ann">>,
      <<"DeploymentPodTemplateLabelsMutator", "tlabels">>,
      <<"DeploymentPodTemplateAnnotationsMutator", "tann">> }

\* C15: after DeploymentAnnotationsMutator, DeploymentPodTemplateLabelsMutator
\* or DeploymentPodTemplateAnnotationsMutator the target map of existing holds
\* desired's value for every key of desired and its original value for every
\* key that only existing had, no key is removed, nothing else of existing
\* changes, and changed is true iff the resulting map differs from the
\* original one.
MapMergeKeepsAndOverrides ==
    \A t \in MapMutators :
        last = t[1] =>
            LET o == prev.e[t[2]]
                d == prev.d[t[2]]
                r == mem.e[t[2]]
            IN /\ status = "ok"
               /\ DOMAIN r = DOMAIN o \cup DOMAIN d
               /\ \A k \in DOMAIN d : r[k] = d[k]
               /\ \A k \in DOMAIN o \ DOMAIN d : r[k] = o[k]
               /\ changed = (r # o)
               /\ mem.e = [prev.e EXCEPT ![t[2]] = r]

\* DeploymentPodTemplateLabelsMutator has merged a desired map that overrides
\* one label of existing and lacks another one.
LabelsMergedOverExisting ==
    /\ last = "DeploymentPodTemplateLabelsMutator" /\ changed = TRUE
    /\ DOMAIN prev.e.tlabels \ DOMAIN prev.d.tlabels # {}
    /\ \E k \in DOMAIN prev.e.tlabels \cap DOMAIN prev.d.tlabels :
          prev.e.tlabels[k] # prev.d.tlabels[k]

\* s is the beginning of t.
IsPrefix(s, t) == Len(s) <= Len(t) /\ SubSeq(t, 1, Len(s)) = s

\* The entries of des whose name no entry of orig has.
MissingFrom(orig, des) ==
    SelectSeq(des, LAMBDA x : \A i \in 1..Len(orig) : orig[i].name # x.name)

\* The containers ecs with, at every index, the mounts of dcs at that index
\* that were missing appended.
MountsAppended(ecs, dcs) ==
    [i \in 1..Len(ecs) |->
        [ecs[i] EXCEPT !.mounts = @ \o MissingFrom(@, dcs[i].mounts)]]

MountsKept(before, after) ==
    /\ Len(after) = Len(before)
    /\ \A i \in 1..Len(before) : IsPrefix(before[i].mounts, after[i].mounts)

\* C16: DeploymentSyncVolumesAndMountsMutator never removes or alters an
\* entry: every volume list and mount list of existing begins with what it
\* was; when the call returns, the volume list is the original one followed
\* by desired's volumes whose names were absent, every mount list the original
\* one followed by the desired mounts of the same index whose names were
\* absent, nothing else of existing has changed, and changed is true iff
\* something was appended.
SyncIsAdditive ==
    last = "DeploymentSyncVolumesAndMountsMutator" =>
        /\ status \in {"ok", "panic"}
        /\ IsPrefix(prev.e.volumes, mem.e.volumes)
        /\ MountsKept(prev.e.containers, mem.e.containers)
        /\ MountsKept(prev.e.initContainers, mem.e.initContainers)
        /\ status = "ok" =>
              /\ mem.e =
                   [prev.e EXCEPT
                       !.volumes = @ \o MissingFrom(@, prev.d.volumes),
                       !.volumesNil = FALSE,
                       !.containers = MountsAppended(@, prev.d.containers),
                       !.initContainers = MountsAppended(@, prev.d.initContainers)]
              /\ changed = \/ mem.e.volumes # prev.e.volumes
                           \/ mem.e.containers # prev.e.containers
                           \/ mem.e.initContainers # prev.e.initContainers

\* The mutator has appended a volume and a mount to an existing object that
\* holds a volume and a mount under desired's names with other definitions.
SyncAppendedBesideSameNames ==
    /\ last = "DeploymentSyncVolumesAndMountsMutator"
    /\ status = "ok" /\ changed = TRUE
    /\ prev.e.volumes = <<Named("data", "e")>>
    /\ Len(mem.e.volumes) = 2
    /\ prev.e.containers[1].mounts = <<Named(WritableTLS, "e")>>
    /\ Len(mem.e.containers[1].mounts) = 3

IsTLSName(n) == n \in {WritableTLS, TLSSecret}

HoldsTLSName(s) == \E i \in 1..Len(s) : IsTLSName(s[i].name)

\* existing holds a volume, or a mount of a container or an init container,
\* named writable-tls or tls-secret.
HoldsTLS(e) ==
    \/ HoldsTLSName(e.volumes)
    \/ \E i \in 1..Len(e.containers) : HoldsTLSName(e.containers[i].mounts)
    \/ \E i \in 1..Len(e.initContainers) : HoldsTLSName(e.initContainers[i].mounts)

OtherVolumes(vs) == SelectSeq(vs, LAMBDA v : ~IsTLSName(v.name))

\* C17: DeploymentRemoveTLSVolumesAndMountsMutator returns changed = true iff
\* existing held a volume or a mount named writable-tls or tls-secret before
\* the call, a second call on the result returns changed = false for every
\* existing object, and the volumes with other names keep their order and
\* content.
RemoveTLSChangedIffPresent ==
    last = "DeploymentRemoveTLSVolumesAndMountsMutator" =>
        /\ status = "ok"
        /\ changed = HoldsTLS(prev.e)
        /\ rep => changed = FALSE
        /\ OtherVolumes(mem.e.volumes) = OtherVolumes(prev.e.volumes)

\* C18: after DeploymentRemoveTLSVolumesAndMountsMutator returns, no volume of
\* the pod spec and no mount of any container or init container of existing
\* is named writable-tls or tls-secret, also when the mounts are there without
\* the volume or the volume list is nil.
NoTLSLeftAfterRemoval ==
    (last = "DeploymentRemoveTLSVolumesAndMountsMutator" /\ status = "ok")
        => ~HoldsTLS(mem.e)

\* C19: after DeploymentPodInitContainerMutator existing's init-container list
\* has desired's length and equals it position by position, changed is true
\* iff the list was different before the call, and nothing outside the
\* init-container list of existing changes.
InitContainersFollowDesired ==
    last = "DeploymentPodInitContainerMutator" =>
        /\ status = "ok"
        /\ Len(mem.e.initContainers) = Len(prev.d.initContainers)
        /\ \A i \in 1..Len(prev.d.initContainers) :
              mem.e.initContainers[i] = prev.d.initContainers[i]
        /\ changed = (prev.e.initContainers # prev.d.initContainers)
        /\ mem.e = [prev.e EXCEPT !.initContainers = mem.e.initContainers]
        /\ mem.d = prev.d

\* The mutator has run on an existing object with two init containers, none
\* equal to the single one of desired: one replaced, one cut off.
InitContainersTrimmedAndReplaced ==
    /\ last = "DeploymentPodInitContainerMutator"
    /\ Len(prev.e.initContainers) = 2 /\ Len(prev.d.initContainers) = 1
    /\ prev.e.initContainers[1] # prev.d.initContainers[1]
    /\ changed = TRUE /\ status = "ok"

\* The structural-replace mutators and the field each one reconciles.
StructuralMutators ==
    { <<"DeploymentAffinityMutator", "affinity">>,
      <<"DeploymentTolerationsMutator", "tolerations">>,
      <<"DeploymentTopologySpreadConstraintsMutator", "topology">>,
      <<"DeploymentStrategyMutator", "strategy">>,
      <<"DeploymentPriorityClassMutator", "priorityClass">> }

\* C20: each structural-replace mutator leaves its field of existing equal to
\* desired's, returns changed = true iff the two values differed before the
\* call, and changes no other field of existing.
StructuralReplace ==
    \A t \in StructuralMutators :
        last = t[1] =>
            /\ status = "ok"
            /\ mem.e[t[2]] = prev.d[t[2]]
            /\ changed = (prev.e[t[2]] # prev.d[t[2]])
            /\ mem.e = [prev.e EXCEPT ![t[2]] = prev.d[t[2]]]

\* DeploymentTolerationsMutator has replaced tolerations that differed from
\* desired's on an object whose other compared fields differ as well.
TolerationsReplaced ==
    /\ last = "DeploymentTolerationsMutator" /\ changed = TRUE
    /\ prev.e.tolerations # prev.d.tolerations
    /\ prev.e.affinity.value # prev.d.affinity.value

\* env holds an entry named n with value v.
HasEnv(env, n, v) == \E i \in 1..Len(env) : env[i].name = n /\ env[i].value = v

\* C21: a single call of DeploymentListenerEnvMutator leaves containers[0].Env
\* with LISTENER_WORKERS = "1" and CONFIG_REDIS_ASYNC = "1" both present, for
\* every starting env list, whatever desired contains.
ListenerEnvPinsBoth ==
    (last = "DeploymentListenerEnvMutator" /\ status = "ok")
        => /\ HasEnv(mem.e.containers[1].env, LW, "1")
           /\ HasEnv(mem.e.containers[1].env, CRA, "1")

\* C22: DeploymentListenerAsyncDisableEnvMutator applied to a container whose
\* env is already in the configuration it produces (no LISTENER_WORKERS entry
\* and CONFIG_REDIS_ASYNC = "0") returns changed = false and leaves the env
\* list unchanged.
AsyncDisableEnvQuietWhenPinned ==
    ( /\ last = "DeploymentListenerAsyncDisableEnvMutator"
      /\ Len(prev.e.containers) >= 1
      /\ Occurs(prev.e.containers[1].env, LW) = 0
      /\ HasEnv(prev.e.containers[1].env, CRA, "0")
      /\ ~HasEnv(prev.e.containers[1].env, CRA, "1") )
        => (changed = FALSE /\ mem.e = prev.e)

\* The listener argument mutators and the argument list each one sets.
ListenerArgsMutators ==
    { <<"DeploymentListenerArgsMutator", FalconArgs>>,
      <<"DeploymentListenerAsyncDisableArgsMutator", PumaArgs>> }

TypeMismatchAborts ==
    (IsPipelineCall /\ ~BothDeployments(prev))
        => /\ status = "error" /\ changed = FALSE
           /\ trace = <<>>
           /\ mem = prev

\* The pipeline has been called with a desired object that is not a
\* Deployment and an existing Deployment that lacks an annotation of desired.
PipelineCalledWithForeignDesired ==
    /\ IsPipelineCall
    /\ prev.dKind # "Deployment" /\ prev.eKind = "Deployment"
    /\ prev.d.ann # prev.e.ann
    /\ status = "error"

EnvNames(env) == {env[i].name : i \in 1..Len(env)}

\* after holds at most one entry per name, one for every name of before, and
\* each of its entries is an entry of before.
PrunedFrom(before, after) ==
    /\ \A n \in EnvNames(after) : Occurs(after, n) = 1
    /\ EnvNames(after) = EnvNames(before)
    /\ \A i \in 1..Len(after) : \E j \in 1..Len(before) : after[i] = before[j]

\* C25: after DeploymentRemoveDuplicateEnvVarMutator the env list of every
\* container of existing holds at most one entry per variable name and keeps
\* one entry for every name that was present, nothing else of existing has
\* changed, changed is true iff some container's env list was shortened, and a
\* second call returns changed = false.
DuplicateEnvPruned ==
    last = "DeploymentRemoveDuplicateEnvVarMutator" =>
        /\ status = "ok"
        /\ Len(mem.e.containers) = Len(prev.e.containers)
        /\ \A i \in 1..Len(prev.e.containers) :
              PrunedFrom(prev.e.containers[i].env, mem.e.containers[i].env)
        /\ mem.e = [prev.e EXCEPT !.containers =
                       [i \in 1..Len(prev.e.containers) |->
                           [prev.e.containers[i] EXCEPT
                               !.env = mem.e.containers[i].env]]]
        /\ changed = \E i \in 1..Len(prev.e.containers) :
                         Len(mem.e.containers[i].env) < Len(prev.e.containers[i].env)
        /\ rep => changed = FALSE

\* The mutator has shortened the env list of the second container of
\* existing, which named LISTENER_WORKERS twice.
SecondContainerPruned ==
    /\ last = "DeploymentRemoveDuplicateEnvVarMutator" /\ changed = TRUE
    /\ Len(prev.e.containers) = 2
    /\ Occurs(prev.e.containers[2].env, LW) = 2
    /\ Len(mem.e.containers[2].env) = 1

\* C26: in the order of GenericBackendDeploymentMutators every mutator that
\* runs after DeploymentContainerResourcesMutator finds exactly one container
\* in desired and in existing, for every container count existing started
\* with: the pipeline returns the container-count error, exactly when desired
\* does not hold one container, or finishes without an out-of-range access.
GenericPipelineSeesOneContainer ==
    ( /\ IsPipelineCall /\ opts = GenericBackendDeploymentMutators
      /\ BothDeployments(prev) )
        => /\ status \in {"ok", "error"}
           /\ \A i \in 1..Len(trace) : trace[i].status # "panic"
           /\ status = "error" <=> Len(prev.d.containers) # 1
           /\ status = "error" =>
                 trace[Len(trace)].fn = "DeploymentContainerResourcesMutator"
           /\ status = "ok" =>
                 /\ Len(mem.d.containers) = 1 /\ Len(mem.e.containers) = 1
                 /\ Len(trace) = Len(opts)

\* The generic pipeline has finished on an existing object that started with
\* a container count other than one.
GenericPipelineRecreatedContainers ==
    /\ IsPipelineCall /\ opts = GenericBackendDeploymentMutators
    /\ Len(prev.e.containers) # 1 /\ Len(prev.d.containers) = 1
    /\ status = "ok" /\ Len(mem.e.containers) = 1

\* Two replica fields hold the same count, or both hold none.
SameReplicas(a, b) ==
    IF a = NilPtr \/ b = NilPtr THEN a = NilPtr /\ b = NilPtr ELSE a.val = b.val

\* C27: DeploymentReplicasMutator returns changed = false and leaves existing
\* unchanged whenever desired and existing hold the same replica count (or
\* both hold none), and returns changed = true only when the two replica
\* counts differ in value.
ReplicasComparedByValue ==
    last = "DeploymentReplicasMutator" =>
        /\ SameReplicas(prev.d.replicas, prev.e.replicas)
              => (changed = FALSE /\ mem.e = prev.e)
        /\ changed = TRUE => ~SameReplicas(prev.d.replicas, prev.e.replicas)

\* C28: DeploymentPodInitContainerImageMutator never shortens existing's
\* init-container list: it appends desired's init containers at the positions
\* past the end of existing, sets only the Image of the init containers at
\* the positions both have, leaves existing's init containers beyond
\* desired's count untouched, changes nothing else of existing, and returns
\* changed = true iff it appended or changed an image.
InitImagesFollowDesired ==
    last = "DeploymentPodInitContainerImageMutator" =>
        LET de == prev.d.initContainers
            ex == prev.e.initContainers
            now == mem.e.initContainers
        IN /\ status = "ok"
           /\ Len(now) = Max(Len(ex), Len(de))
           /\ \A i \in 1..Len(now) :
                 now[i] = IF i > Len(ex) THEN de[i]
                          ELSE IF i > Len(de) THEN ex[i]
                          ELSE [ex[i] EXCEPT !.image = de[i].image]
           /\ mem.e = [prev.e EXCEPT !.initContainers = now]
           /\ changed = \/ Len(de) > Len(ex)
                        \/ \E i \in 1..Min(Len(ex), Len(de)) :
                              ex[i].image # de[i].image

\* The mutator has set the image of the first init container of an existing
\* object that has two, against a desired object that has one.
InitImageSetBesideExcess ==
    /\ last = "DeploymentPodInitContainerImageMutator" /\ changed = TRUE
    /\ Len(prev.e.initContainers) = 2 /\ Len(prev.d.initContainers) = 1
    /\ prev.e.initContainers[1].args # prev.d.initContainers[1].args
    /\ Len(mem.e.initContainers) = 2

\* The first error in the log of the steps Reconcile called, "nil" when none
\* failed.
RECURSIVE FirstError(_)
FirstError(called) ==
    IF called = <<>> THEN "nil"
    ELSE IF Head(called).err # "nil" THEN Head(called).err
    ELSE FirstError(Tail(called))

StepsOf(called) == [i \in 1..Len(called) |-> called[i].fn]

\* C29: AMPImagesReconciler.Reconcile returns an empty result in every case
\* and the error of the first failing step unchanged; it does not call
\* ReconcileServiceAccount when AmpImages failed, and returns a nil error
\* only when both steps were called and both succeeded.
AmpReturnsFirstError ==
    ampRet # NoReturn =>
        /\ ampRet.result = EmptyResult
        /\ ~ampRet.result.Requeue /\ ampRet.result.RequeueAfter = 0
        /\ ampRet.err = FirstError(ampRet.called)
        /\ ampRet.called[1].fn = "AmpImages"
        /\ ampRet.called[1].err # "nil" =>
              /\ StepsOf(ampRet.called) = <<"AmpImages">>
              /\ ampRet.err \in OptionsErrors
        /\ ampRet.called[1].err = "nil" =>
              /\ StepsOf(ampRet.called) = <<"AmpImages", "ReconcileServiceAccount">>
              /\ ampRet.handed = DeploymentsServiceAccount(NewAmpImages([apimanager |-> apiManager]))
              /\ serviceAccount = ampRet.handed
        /\ ampRet.err = "nil" =>
              /\ Len(ampRet.called) = 2
              /\ \A i \in 1..Len(ampRet.called) : ampRet.called[i].err = "nil"

\* Reconcile failed in AmpImages after an earlier call had handed a service
\* account over: this call handed none.
AmpOptionsFailedAfterSuccess ==
    /\ ampRet.err \in OptionsErrors
    /\ Len(ampRet.called) = 1
    /\ serviceAccount # NoServiceAccount
    /\ calls > 1

SetupSteps ==
    {"getWatchNamespace", "NewManager", "NewDiscoveryClient", "SetupWithManager"}

\* What holds of the process at every moment.
MainOrder ==
    /\ Len(Controllers) = 13
    /\ IsPrefix(proc.registered, Controllers)
    /\ proc.next = Len(proc.registered) + 1
    /\ proc.discovery \in {Len(proc.registered), Len(proc.registered) + 1}
    /\ proc.pc = "SetupWithManager" <=> proc.discovery = Len(proc.registered) + 1
                                        /\ proc.failedAt # "SetupWithManager"
    /\ proc.discovery > 0 => proc.mgrCreated
    /\ proc.mgrCreated =>
          /\ proc.nsFound /\ osEnv.found
          /\ proc.mgrNamespace = osEnv.value
    /\ proc.nsFound <=> (osEnv.found /\ proc.pc # "getWatchNamespace")
    /\ (~osEnv.found /\ proc.pc # "getWatchNamespace") =>
          proc.failedAt = "getWatchNamespace"
    /\ proc.started =>
          /\ osEnv.found /\ proc.mgrCreated
          /\ proc.registered = Controllers
          /\ proc.discovery = Len(Controllers)
    /\ proc.failedAt \in SetupSteps =>
          /\ proc.pc = "exited" /\ proc.exit = 1
          /\ ~proc.started

\* What holds of every step of the process: nothing is attempted after the
\* exit, and the manager is started by the step that follows the
\* registration of the last controller.
MainStep ==
    /\ proc.pc = "exited" => proc' = proc
    /\ (~proc.started /\ proc'.started) =>
          /\ proc.registered = Controllers
          /\ proc.failedAt = "none"
    /\ proc'.registered # proc.registered =>
          /\ proc.discovery = Len(proc.registered) + 1
          /\ proc'.registered = Append(proc.registered, Controllers[proc.next])

\* C30: the manager is started only after WATCH_NAMESPACE was found set (an
\* empty value is accepted, an unset variable is an error), the manager was
\* created and, for each controller in source order, a fresh discovery
\* client was created and the controller was registered; the first failure
\* among these steps ends the process with exit status 1, without starting
\* the manager and without attempting the later steps.
ManagerStartedLast == []MainOrder /\ [][MainStep]_vars

\* The manager was started with WATCH_NAMESPACE set to the empty string.
ManagerStartedClusterScoped ==
    /\ proc.started
    /\ osEnv = [found |-> TRUE, value |-> ""]
    /\ proc.mgrNamespace = ""
    /\ proc.registered = Controllers

====
